---------------------------- MODULE Spec2Model ----------------------------
(***************************************************************************)
(* A model of the search-benchmarking program: the Problem contract (as    *)
(* implemented by ShortestPath), Node and its parent chain, Metrics and    *)
(* SharedMetrics, the five search algorithms BFS, DFS, Iterative Deepening,*)
(* AStar and IDAStar in their search and search_with_shared_metrics        *)
(* forms, and the runner's per-task timeout protocol.                      *)
(*                                                                         *)
(* Option<T> is modelled as a sequence: None is <<>>, Some(x) is <<x>>.    *)
(***************************************************************************)
EXTENDS Integers, Sequences, FiniteSets, TLC

---------------------------------------------------------------------------
(* Bounds of the model *)

\* add_edge calls that build a weighted graph
MaxEdges == 3
\* add_edge calls that build a unit-cost acyclic graph
MaxDagEdges == 5
\* the runner's max_depth is drawn from 0..MaxDepth
MaxDepth == 2
\* the most calls to child a built Node chain is made of
MaxChain == 3
\* the most SharedMetrics calls the threads begin, all together
MaxCalls == 3
\* the last instant the clock reaches, in seconds
MaxTime == 1
\* the largest side N of a grid generate_grid(N, N) is called with
MaxGrid == 3
\* the largest parameter edges of generate_random_with_seed
MaxRandomEdges == 3

---------------------------------------------------------------------------
(* Program constants *)

\* usize::MAX, the "no candidate bound" value of IDA*.  Only ever compared
\* and never added to; the model uses the largest value TLC can hold.
UsizeMax == 2147483647
\* std::mem::size_of::<usize>(), the State of ShortestPath
SizeOfState == 8

None == <<>>
Some(x) == <<x>>

Max(a, b) == IF a >= b THEN a ELSE b
Min(a, b) == IF a <= b THEN a ELSE b

RECURSIVE Reverse(_)
Reverse(s) == IF s = <<>> THEN <<>> ELSE Append(Reverse(Tail(s)), Head(s))

---------------------------------------------------------------------------
(* Problem: the ShortestPath implementation of the contract *)

initial_state(p) == p.start
is_goal(p, state) == state = p.goal
successors(p, state) == p.graph[state]
heuristic(p, state) == p.heuristic_values[state]

---------------------------------------------------------------------------
(* Node *)

Node_new(state) ==
    [state |-> state, parent |-> None, action |-> None, path_cost |-> 0, depth |-> 0]

\* a child whose path_cost counts one per step
child_unit_cost(self, state, action, step_cost) ==
    [state |-> state,
     parent |-> Some(self),
     action |-> Some(action),
     path_cost |-> self.path_cost + 1,
     depth |-> self.depth + 1]

child(self, state, action, step_cost) ==
    [state |-> state,
     parent |-> Some(self),
     action |-> Some(action),
     path_cost |-> self.path_cost + step_cost,
     depth |-> self.depth + 1]

\* the while-let loop of extract_solution: the actions from the node to the root
RECURSIVE collect_actions(_)
collect_actions(node) ==
    (IF node.action # None THEN <<node.action[1]>> ELSE <<>>)
        \o (IF node.parent = None THEN <<>> ELSE collect_actions(node.parent[1]))

\* extract_solution without its actions.reverse()
extract_solution_unreversed(node) == collect_actions(node)

extract_solution(node) == Reverse(collect_actions(node))

---------------------------------------------------------------------------
(* Metrics *)

Metrics_default ==
    [time_ms |-> 0, memory_kb |-> 0, nodes_visited |-> 0, nodes_generated |-> 0,
     max_frontier_size |-> 0, solution_length |-> 0]

\* (explored.len() + frontier.len()) * size_of::<State>() / 1024
memory_estimate(n) == (n * SizeOfState) \div 1024


---------------------------------------------------------------------------
(* SharedMetrics: the bodies of its methods, run with the mutex held.      *)
(* elapsed is self.start.elapsed().as_millis().                            *)

\* shared.update(|m| m.nodes_generated = 1), the one closure the program passes
update_generated_1(m, elapsed) == [m EXCEPT !.nodes_generated = 1, !.time_ms = elapsed]

increment_visited(m, elapsed) ==
    [m EXCEPT !.nodes_visited = @ + 1, !.time_ms = elapsed]

increment_generated(m) == [m EXCEPT !.nodes_generated = @ + 1]

update_max_frontier(m, size) ==
    [m EXCEPT !.max_frontier_size = Max(@, size)]

set_memory_kb(m, kb) == [m EXCEPT !.memory_kb = kb]

set_solution_length(m, len) == [m EXCEPT !.solution_length = len]

---------------------------------------------------------------------------
(* The problems the algorithms are run on *)

\* Weighted graphs: three nodes, start 0 and goal 2 (start 0 and goal
\* nodes - 1 are what the runner passes), edge costs 1..2, heuristic values
\* 0..2 with 0 at the goal, built by at most MaxEdges add_edge calls.  An
\* edge never leads to its own source (generate_random_with_seed skips
\* from = to); parallel edges are allowed (add_edge never removes one).
\* No algorithm expands a goal state, so the goal's own list stays empty.
Nodes == 0 .. 2
Costs == 1 .. 2
HValues == 0 .. 2

\* the successor lists of node u of at most n edges
SuccLists(u, n) == UNION {[1 .. k -> (Nodes \ {u}) \X Costs] : k \in 0 .. n}

\* the graphs over the nodes u..2 built by at most n add_edge calls
RECURSIVE WeightedGraphs(_, _)
WeightedGraphs(u, n) ==
    IF u = 2 THEN {(2 :> <<>>)}
    ELSE UNION {{(u :> l) @@ g : g \in WeightedGraphs(u + 1, n - Len(l))} :
                    l \in SuccLists(u, n)}

WeightedProblems ==
    {[graph |-> g, start |-> 0, goal |-> 2, heuristic_values |-> h] :
        g \in WeightedGraphs(0, MaxEdges),
        h \in {hh \in [Nodes -> HValues] : hh[2] = 0}}

\* Unit-cost acyclic graphs: five nodes, start 0 and goal 4, every edge of
\* cost 1 and from a node to a higher one, each successor list in ascending
\* order, at most MaxDagEdges edges, the default heuristic 0.
DagNodes == 0 .. 4

RECURSIVE AscendingSeq(_)
AscendingSeq(S) ==
    IF S = {} THEN <<>>
    ELSE LET m == CHOOSE x \in S : \A y \in S : x <= y IN
         <<<<m, 1>>>> \o AscendingSeq(S \ {m})

RECURSIVE UnitDags(_, _)
UnitDags(u, n) ==
    IF u = 4 THEN {(4 :> <<>>)}
    ELSE UNION {{(u :> AscendingSeq(T)) @@ g : g \in UnitDags(u + 1, n - Cardinality(T))} :
                    T \in {TT \in SUBSET ((u + 1) .. 4) : Cardinality(TT) <= n}}

UnitDagProblems ==
    {[graph |-> g, start |-> 0, goal |-> 4, heuristic_values |-> [u \in DagNodes |-> 0]] :
        g \in UnitDags(0, MaxDagEdges)}

---------------------------------------------------------------------------
(* State *)

VARIABLES
    now,            \* the monotonic clock (Instant::now), in seconds
    problem,        \* the task's problem instance
    algo_name,      \* the task's algorithm name
    max_depth,      \* the max_depth the runner passes with it
    api,            \* "search" or "shared": the entry point being executed
    pc,             \* where the executing algorithm stands
    frontier,       \* BFS queue / DFS stack / AStar heap
    explored,       \* explored set (AStar: state-cost pairs of its map)
    g_scores,       \* AStar: best known path cost per state
    metrics,        \* the local Metrics of search
    start,          \* the local start Instant of search
    shared,         \* the Metrics behind SharedMetrics.inner
    shared_start,   \* SharedMetrics.start
    dfs_max_depth,  \* DFS.max_depth of the running DFS
    total_metrics,  \* IterativeDeepening::search: total_metrics
    id_start,       \* IterativeDeepening::search: start
    depth,          \* IterativeDeepening: the loop variable
    bound,          \* IDAStar: the current cost bound
    stack,          \* IDAStar: the frames of search_recursive
    call,           \* IDAStar: the node search_recursive is being entered with
    ret,            \* IDAStar: the value search_recursive is returning
    result,         \* the SearchResult the algorithm returns
    res_search,     \* what execute_algorithm returned
    res_shared,     \* what execute_algorithm_with_shared returned
    pops,           \* AStar: heap positions popped by search, in order
    goal_node,      \* the node a returned solution was extracted from
    built,          \* a Node built by Node::new and calls to child
    passed,         \* the action arguments passed to those calls, in order
    step_costs,     \* the step_cost arguments passed to those calls, in order
    mutex,          \* SharedMetrics.inner: the thread holding the Mutex, if any
    th,             \* per thread: its call on a SharedMetrics clone and where it stands
    calls,          \* the number of SharedMetrics calls begun
    completed,      \* per method: the number of its calls that have returned
    max_arg,        \* the largest size a returned update_max_frontier call passed
    stable,         \* the Metrics behind the mutex when it was last released
    timeout_secs,   \* config.timeout_secs
    run_pc,         \* where execute_with_timeout stands
    tx,             \* the channel: the SearchResult sent and not yet received
    deadline,       \* the instant at which recv_timeout gives up
    run_result,     \* the SearchResult execute_with_timeout returned
    spawned,        \* the number of worker threads execute_with_timeout spawned
    gen_pc,         \* where generate_random_with_seed stands
    gen_i,          \* generate_random_with_seed: the loop counter
    gen_edges,      \* generate_random_with_seed: the parameter edges
    config,         \* BenchmarkRunner.config
    run_state,      \* where run stands
    family,         \* run: the label of the problem family its match arm benchmarks
    all_tasks,      \* execute_benchmarks: the (instance_id, algo_name) tasks
    task,           \* execute_benchmarks: per task, the closure, its worker and channel
    results,        \* the Vec<BenchmarkResult> execute_benchmarks collects
    output_file,    \* the content of config.output_file, None while it is not written
    run_error,      \* the error run returns, None while it has returned none
    group,          \* the slice of BenchmarkResult given to from_results
    aggregated,     \* what from_results returned, None before it is called
    arcs,           \* the SharedMetrics allocated by execute_with_timeout, by handle
    ebf_in,         \* the Metrics effective_branching_factor is called on
    ebf_out         \* what effective_branching_factor returned, None before the call

\* the algorithms' own state
algVars ==
    <<problem, algo_name, max_depth, api, pc, frontier, explored, g_scores,
      metrics, start, shared_start, dfs_max_depth, total_metrics,
      id_start, depth, bound, stack, call, ret, result, res_search,
      res_shared, pops, goal_node>>

searchVars == <<algVars, shared>>

\* the working state of one execution of an algorithm
workVars ==
    <<frontier, explored, g_scores, metrics, start, shared, shared_start,
      dfs_max_depth, total_metrics, id_start, depth, bound, stack, call, ret,
      result, goal_node>>

chainVars == <<built, passed, step_costs>>
threadVars == <<mutex, th, calls, completed, max_arg, stable>>
runVars == <<timeout_secs, run_pc, tx, deadline, run_result, spawned>>

\* what the search algorithms and their harness never touch
genVars == <<gen_pc, gen_i, gen_edges>>

\* the generators' and the run's state
poolVars ==
    <<config, run_state, family, all_tasks, task, results, output_file, run_error>>

aggVars == <<group, aggregated>>

heapVars == <<arcs>>

ebfVars == <<ebf_in, ebf_out>>

extVars == <<genVars, poolVars, aggVars, heapVars, ebfVars>>

otherVars == <<chainVars, threadVars, runVars, extVars>>

vars == <<now, searchVars, otherVars>>

Algorithms == {"BFS", "DFS", "ID", "A*", "IDA*"}

\* start.elapsed().as_millis()
elapsed_ms(since) == (now - since) * 1000

\* the Metrics record the running entry point counts in
cur == IF api = "shared" THEN shared ELSE metrics

put(m) ==
    IF api = "shared" THEN shared' = m /\ metrics' = metrics
    ELSE metrics' = m /\ shared' = shared

\* metrics.nodes_visited += 1  /  shared.increment_visited()
visit(m) ==
    IF api = "shared" THEN increment_visited(m, elapsed_ms(shared_start))
    ELSE [m EXCEPT !.nodes_visited = @ + 1]

\* metrics.nodes_generated = 1  /  shared.update(|m| m.nodes_generated = 1)
generated_1(m) ==
    IF api = "shared" THEN update_generated_1(m, elapsed_ms(shared_start))
    ELSE [m EXCEPT !.nodes_generated = 1]

\* metrics.time_ms = start.elapsed().as_millis(): only search sets it on return
stamp(m, since) ==
    IF api = "shared" THEN m ELSE [m EXCEPT !.time_ms = elapsed_ms(since)]

\* a get that falls back to Metrics::default() (unwrap_or_default)
get_default(m) == Metrics_default

\* self.inner.lock().map(|m| m.clone()): a copy of the Metrics behind the mutex
get(m) == m

\* a result built with Metrics::default() in place of the counted metrics
SearchResult_default_metrics(solution, m, status) ==
    [solution |-> solution, metrics |-> Metrics_default, status |-> status]

SearchResult(solution, m, status) ==
    [solution |-> solution, metrics |-> m, status |-> status]

Threads == {1, 2}

Methods ==
    {"update", "get", "increment_visited", "increment_generated",
     "update_max_frontier", "set_memory_kb", "set_solution_length"}

\* a thread that has made no call yet
Thread_new ==
    [pc |-> "idle", op |-> "none", arg |-> 0, reg |-> 0, began |-> 0, got |-> None]

\* no node chain is being built
Init_chain == built = Node_new(0) /\ passed = <<>> /\ step_costs = <<>>

\* no thread calls a SharedMetrics method on its own
Init_threads ==
    /\ mutex = None
    /\ th = [t \in Threads |-> Thread_new]
    /\ calls = 0
    /\ completed = [f \in Methods |-> 0]
    /\ max_arg = 0
    /\ stable = Metrics_default

\* generate_random_with_seed is not running
Init_gen == gen_pc = "idle" /\ gen_i = 0 /\ gen_edges = 0

\* run is not called
Init_pool ==
    /\ config = [algorithm |-> "all", problem |-> "all", iterations |-> 0,
                 threads |-> 1, timeout_secs |-> 0]
    /\ run_state = "idle"
    /\ family = None
    /\ all_tasks = <<>>
    /\ task = <<>>
    /\ results = <<>>
    /\ output_file = None
    /\ run_error = None

\* from_results is not called
Init_agg == group = <<>> /\ aggregated = None

\* no SharedMetrics is allocated
Init_heap == arcs = <<>>

\* effective_branching_factor is not called
Init_ebf == ebf_in = Metrics_default /\ ebf_out = None

Init_ext == Init_gen /\ Init_pool /\ Init_agg /\ Init_heap /\ Init_ebf

\* execute_with_timeout is not running
Init_run ==
    /\ timeout_secs = 0
    /\ run_pc = "idle"
    /\ tx = None
    /\ deadline = 0
    /\ run_result = None
    /\ spawned = 0

\* the weighted problems with the goal moved onto the start node
GoalAtStartProblems == {[p EXCEPT !.goal = p.start] : p \in WeightedProblems}

Init_work ==
    /\ frontier = <<>>
    /\ explored = {}
    /\ g_scores = <<>>
    /\ metrics = Metrics_default
    /\ start = 0
    /\ shared = Metrics_default
    /\ shared_start = 0
    /\ dfs_max_depth = None
    /\ total_metrics = Metrics_default
    /\ id_start = 0
    /\ depth = 0
    /\ bound = 0
    /\ stack = <<>>
    /\ call = None
    /\ ret = None
    /\ result = None
    /\ goal_node = None

\* One task: an algorithm, a problem and the runner's max_depth.  The
\* uninformed algorithms never call heuristic, and BFS and AStar never read
\* max_depth, so those inputs are fixed for them; BFS is also run on the
\* unit-cost acyclic graphs.
Init ==
    /\ now = 0
    /\ algo_name \in Algorithms
    /\ problem \in IF algo_name = "BFS"
                   THEN WeightedProblems \cup GoalAtStartProblems \cup UnitDagProblems
                   ELSE WeightedProblems \cup GoalAtStartProblems
    /\ max_depth \in 0 .. MaxDepth
    /\ algo_name \in {"BFS", "DFS", "ID"}
          => \A u \in DOMAIN problem.graph : problem.heuristic_values[u] = 0
    /\ algo_name \in {"BFS", "A*"} => max_depth = MaxDepth
    /\ api = "search"
    /\ pc = "idle"
    /\ res_search = None
    /\ res_shared = None
    /\ pops = <<>>
    /\ Init_work
    /\ Init_chain
    /\ Init_threads
    /\ Init_ext
    /\ Init_run

entry(name) ==
    CASE name = "BFS" -> "bfs_start"
      [] name = "DFS" -> "dfs_start"
      [] name = "ID" -> "id_start"
      [] name = "A*" -> "astar_start"
      [] name = "IDA*" -> "ida_start"

\* execute_algorithm(algo_name, problem, max_depth): dispatch to search
execute_algorithm ==
    /\ pc = "idle"
    /\ res_search = None
    /\ api' = "search"
    /\ pc' = entry(algo_name)
    /\ dfs_max_depth' = Some(max_depth)
    /\ UNCHANGED <<otherVars, now, problem, algo_name, max_depth, frontier, explored, g_scores,
                   metrics, start, shared, shared_start, total_metrics, id_start,
                   depth, bound, stack, call, ret, result, res_search, res_shared,
                   pops, goal_node>>

\* execute_algorithm_with_shared(algo_name, problem, SharedMetrics::new(), max_depth)
execute_algorithm_with_shared ==
    /\ pc = "idle"
    /\ res_search # None
    /\ res_shared = None
    /\ api' = "shared"
    /\ pc' = entry(algo_name)
    /\ dfs_max_depth' = Some(max_depth)
    /\ shared' = Metrics_default
    /\ shared_start' = now
    /\ UNCHANGED <<otherVars, now, problem, algo_name, max_depth, frontier, explored, g_scores,
                   metrics, start, total_metrics, id_start,
                   depth, bound, stack, call, ret, result, res_search, res_shared,
                   pops, goal_node>>

\* the call returns: the caller holds the SearchResult, the locals are dropped
returned ==
    /\ pc = "done"
    /\ pc' = "idle"
    /\ IF api = "search"
       THEN res_search' = Some([r |-> result[1], goal_node |-> goal_node])
            /\ res_shared' = res_shared
       ELSE res_shared' = Some([r |-> result[1], goal_node |-> goal_node])
            /\ res_search' = res_search
    /\ frontier' = <<>>
    /\ explored' = {}
    /\ g_scores' = <<>>
    /\ metrics' = Metrics_default
    /\ total_metrics' = Metrics_default
    /\ dfs_max_depth' = None
    /\ depth' = 0
    /\ bound' = 0
    /\ stack' = <<>>
    /\ call' = None
    /\ ret' = None
    /\ result' = None
    /\ goal_node' = None
    /\ UNCHANGED <<otherVars, now, problem, algo_name, max_depth, api, start, shared,
                   shared_start, id_start, pops>>

---------------------------------------------------------------------------
(* BFS *)

\* a queue popped at the wrong end: frontier.pop_back()
pop_back(fr) == [node |-> fr[Len(fr)], rest |-> SubSeq(fr, 1, Len(fr) - 1)]

\* frontier.pop_front()
pop_front(fr) == [node |-> Head(fr), rest |-> Tail(fr)]

\* a test that does not look at the frontier
BFS_admits_explored_only(successor_state, ex, fr) == successor_state \notin ex

\* !explored.contains(&s) && !frontier.iter().any(|n| n.state == s)
BFS_admits(successor_state, ex, fr) ==
    /\ successor_state \notin ex
    /\ ~(\E k \in 1 .. Len(fr) : fr[k].state = successor_state)

\* the for loop over problem.successors(&node.state), from its i-th pair on
RECURSIVE BFS_expand(_, _, _, _, _, _)
BFS_expand(node, succs, i, fr, ex, generated) ==
    IF i > Len(succs) THEN [frontier |-> fr, generated |-> generated]
    ELSE IF BFS_admits(succs[i][1], ex, fr)
         THEN BFS_expand(node, succs, i + 1,
                         Append(fr, child(node, succs[i][1], generated, succs[i][2])),
                         ex, generated + 1)
         ELSE BFS_expand(node, succs, i + 1, fr, ex, generated)

BFS_start ==
    /\ pc = "bfs_start"
    /\ frontier' = <<Node_new(initial_state(problem))>>
    /\ explored' = {}
    /\ put(generated_1(IF api = "shared" THEN shared ELSE Metrics_default))
    /\ start' = IF api = "shared" THEN start ELSE now
    /\ pc' = "bfs_loop"
    /\ UNCHANGED <<otherVars, now, problem, algo_name, max_depth, api, g_scores, shared_start,
                   dfs_max_depth, total_metrics, id_start, depth, bound, stack,
                   call, ret, result, res_search, res_shared, pops, goal_node>>

\* one turn of: while let Some(node) = frontier.pop_front()
BFS_loop ==
    /\ pc = "bfs_loop"
    /\ IF frontier = <<>>
       THEN LET m == stamp(set_memory_kb(cur, memory_estimate(Cardinality(explored))),
                           start) IN
            /\ put(m)
            /\ result' = Some(SearchResult(None, m, 2))
            /\ pc' = "done"
            /\ UNCHANGED <<frontier, explored, goal_node>>
       ELSE LET node == pop_front(frontier).node
                rest == pop_front(frontier).rest
                m1 == visit(cur) IN
            IF is_goal(problem, node.state)
            THEN LET solution == extract_solution(node)
                     m == stamp(set_memory_kb(set_solution_length(m1, Len(solution)),
                                    memory_estimate(Cardinality(explored) + Len(rest))),
                                start) IN
                 /\ put(m)
                 /\ result' = Some(SearchResult(Some(solution), m, 0))
                 /\ goal_node' = Some(node)
                 /\ frontier' = rest
                 /\ pc' = "done"
                 /\ UNCHANGED explored
            ELSE LET ex == explored \cup {node.state}
                     e == BFS_expand(node, successors(problem, node.state), 1, rest,
                                     ex, m1.nodes_generated) IN
                 /\ explored' = ex
                 /\ frontier' = e.frontier
                 /\ put(update_max_frontier([m1 EXCEPT !.nodes_generated = e.generated],
                                            Len(e.frontier)))
                 /\ UNCHANGED <<pc, result, goal_node>>
    /\ UNCHANGED <<otherVars, now, problem, algo_name, max_depth, api, g_scores, start, shared_start,
                   dfs_max_depth, total_metrics, id_start, depth, bound, stack,
                   call, ret, res_search, res_shared, pops>>

---------------------------------------------------------------------------
(* DFS: the Vec is a stack whose top is its last element *)

\* where a finished DFS returns to: its caller is the runner or IterativeDeepening
DFS_return == IF algo_name = "ID" THEN "id_after" ELSE "done"

\* a DFS that never cuts off
DFS_no_cutoff(node, limit) == FALSE

\* a DFS that already cuts off the nodes at max_depth
DFS_cutoff_at(node, limit) == limit # None /\ node.depth >= limit[1]

\* if let Some(max_depth) = self.max_depth { if node.depth > max_depth { continue } }
DFS_cutoff(node, limit) == limit # None /\ node.depth > limit[1]

RECURSIVE DFS_expand(_, _, _, _, _, _)
DFS_expand(node, succs, i, fr, ex, generated) ==
    IF i > Len(succs) THEN [frontier |-> fr, generated |-> generated]
    ELSE IF succs[i][1] \notin ex
         THEN DFS_expand(node, succs, i + 1,
                         Append(fr, child(node, succs[i][1], generated, succs[i][2])),
                         ex, generated + 1)
         ELSE DFS_expand(node, succs, i + 1, fr, ex, generated)

DFS_start ==
    /\ pc = "dfs_start"
    /\ frontier' = <<Node_new(initial_state(problem))>>
    /\ explored' = {}
    /\ put(generated_1(IF api = "shared" THEN shared ELSE Metrics_default))
    /\ start' = IF api = "shared" THEN start ELSE now
    /\ pc' = "dfs_loop"
    /\ UNCHANGED <<otherVars, now, problem, algo_name, max_depth, api, g_scores, shared_start,
                   dfs_max_depth, total_metrics, id_start, depth, bound, stack,
                   call, ret, result, res_search, res_shared, pops, goal_node>>

\* one turn of: while let Some(node) = frontier.pop()
DFS_loop ==
    /\ pc = "dfs_loop"
    /\ IF frontier = <<>>
       THEN LET m == stamp(set_memory_kb(cur, memory_estimate(Cardinality(explored))),
                           start) IN
            /\ put(m)
            /\ result' = Some(SearchResult(None, m, 2))
            /\ pc' = DFS_return
            /\ UNCHANGED <<frontier, explored, goal_node>>
       ELSE LET node == frontier[Len(frontier)]
                rest == SubSeq(frontier, 1, Len(frontier) - 1)
                m1 == visit(cur) IN
            IF DFS_cutoff(node, dfs_max_depth)
            THEN /\ put(m1)
                 /\ frontier' = rest
                 /\ UNCHANGED <<explored, pc, result, goal_node>>
            ELSE IF is_goal(problem, node.state)
            THEN LET solution == extract_solution(node)
                     m == stamp(set_memory_kb(set_solution_length(m1, Len(solution)),
                                    memory_estimate(Cardinality(explored) + Len(rest))),
                                start) IN
                 /\ put(m)
                 /\ result' = Some(SearchResult(Some(solution), m, 0))
                 /\ goal_node' = Some(node)
                 /\ frontier' = rest
                 /\ pc' = DFS_return
                 /\ UNCHANGED explored
            ELSE LET ex == explored \cup {node.state}
                     e == DFS_expand(node, successors(problem, node.state), 1, rest,
                                     ex, m1.nodes_generated) IN
                 /\ explored' = ex
                 /\ frontier' = e.frontier
                 /\ put(update_max_frontier([m1 EXCEPT !.nodes_generated = e.generated],
                                            Len(e.frontier)))
                 /\ UNCHANGED <<pc, result, goal_node>>
    /\ UNCHANGED <<otherVars, now, problem, algo_name, max_depth, api, g_scores, start, shared_start,
                   dfs_max_depth, total_metrics, id_start, depth, bound, stack,
                   call, ret, res_search, res_shared, pops>>

---------------------------------------------------------------------------
(* Iterative Deepening *)

ID_start ==
    /\ pc = "id_start"
    /\ total_metrics' = Metrics_default
    /\ id_start' = IF api = "shared" THEN id_start ELSE now
    /\ depth' = 0
    /\ pc' = "id_loop"
    /\ UNCHANGED <<otherVars, now, problem, algo_name, max_depth, api, frontier, explored, g_scores,
                   metrics, start, shared, shared_start, dfs_max_depth, bound, stack,
                   call, ret, result, res_search, res_shared, pops, goal_node>>

\* for depth in 0..=self.max_depth: the next DFS::with_max_depth(depth), or
\* the return after the last one
ID_loop ==
    /\ pc = "id_loop"
    /\ IF depth > max_depth
       THEN LET m == IF api = "shared" THEN shared
                     ELSE [total_metrics EXCEPT !.time_ms = elapsed_ms(id_start)] IN
            /\ result' = Some(SearchResult(None, m, 2))
            /\ pc' = "done"
            /\ UNCHANGED dfs_max_depth
       ELSE /\ dfs_max_depth' = Some(depth)
            /\ pc' = "dfs_start"
            /\ UNCHANGED result
    /\ UNCHANGED <<otherVars, now, problem, algo_name, max_depth, api, frontier, explored, g_scores,
                   metrics, start, shared, shared_start, total_metrics, id_start, depth,
                   bound, stack, call, ret, res_search, res_shared, pops, goal_node>>

\* a loop body that keeps the counters of the last DFS only
ID_after_last_run ==
    /\ pc = "id_after"
    /\ LET r == result[1]
           t1 == [total_metrics EXCEPT
                     !.nodes_visited = r.metrics.nodes_visited,
                     !.nodes_generated = r.metrics.nodes_generated,
                     !.max_frontier_size = r.metrics.max_frontier_size]
           t2 == [t1 EXCEPT !.solution_length = r.metrics.solution_length,
                            !.time_ms = elapsed_ms(id_start),
                            !.memory_kb = r.metrics.memory_kb] IN
       IF api = "shared"
       THEN /\ UNCHANGED total_metrics
            /\ IF r.status = 0
               THEN /\ result' = Some(SearchResult(r.solution, shared, 0))
                    /\ pc' = "done"
                    /\ UNCHANGED depth
               ELSE /\ depth' = depth + 1
                    /\ pc' = "id_loop"
                    /\ UNCHANGED result
       ELSE IF r.status = 0
            THEN /\ total_metrics' = t2
                 /\ result' = Some(SearchResult(r.solution, t2, 0))
                 /\ pc' = "done"
                 /\ UNCHANGED depth
            ELSE /\ total_metrics' = t1
                 /\ depth' = depth + 1
                 /\ pc' = "id_loop"
                 /\ UNCHANGED result
    /\ UNCHANGED <<otherVars, now, problem, algo_name, max_depth, api, frontier, explored, g_scores,
                   metrics, start, shared, shared_start, dfs_max_depth, id_start,
                   bound, stack, call, ret, res_search, res_shared, pops, goal_node>>

\* the loop body after the DFS returned its result
ID_after ==
    /\ pc = "id_after"
    /\ LET r == result[1]
           t1 == [total_metrics EXCEPT
                     !.nodes_visited = @ + r.metrics.nodes_visited,
                     !.nodes_generated = @ + r.metrics.nodes_generated,
                     !.max_frontier_size = Max(@, r.metrics.max_frontier_size)]
           t2 == [t1 EXCEPT !.solution_length = r.metrics.solution_length,
                            !.time_ms = elapsed_ms(id_start),
                            !.memory_kb = r.metrics.memory_kb] IN
       IF api = "shared"
       THEN /\ UNCHANGED total_metrics
            /\ IF r.status = 0
               THEN /\ result' = Some(SearchResult(r.solution, shared, 0))
                    /\ pc' = "done"
                    /\ UNCHANGED depth
               ELSE /\ depth' = depth + 1
                    /\ pc' = "id_loop"
                    /\ UNCHANGED result
       ELSE IF r.status = 0
            THEN /\ total_metrics' = t2
                 /\ result' = Some(SearchResult(r.solution, t2, 0))
                 /\ pc' = "done"
                 /\ UNCHANGED depth
            ELSE /\ total_metrics' = t1
                 /\ depth' = depth + 1
                 /\ pc' = "id_loop"
                 /\ UNCHANGED result
    /\ UNCHANGED <<otherVars, now, problem, algo_name, max_depth, api, frontier, explored, g_scores,
                   metrics, start, shared, shared_start, dfs_max_depth, id_start,
                   bound, stack, call, ret, res_search, res_shared, pops, goal_node>>

---------------------------------------------------------------------------
(* AStar.  The BinaryHeap is the sequence of its entries in push order; pop *)
(* removes an entry of least f_score (Ord is reversed on f_score).  Which   *)
(* of several least entries leaves first is decided by the heap's layout,   *)
(* a function of the pushes and pops so far: any of them may, and the same  *)
(* pushes and pops make the same choice again (pops).                       *)

HashMap_get(map, key) == IF key \in DOMAIN map THEN Some(map[key]) ELSE None

HashMap_insert(map, key, value) ==
    [k \in DOMAIN map \cup {key} |-> IF k = key THEN value ELSE map[k]]

\* a heap whose Ord is not reversed: pop returns an entry of greatest f_score
heap_top_max(fr) ==
    {k \in 1 .. Len(fr) : \A j \in 1 .. Len(fr) : fr[k].f_score >= fr[j].f_score}

\* the entries frontier.pop() may return
heap_top(fr) == {k \in 1 .. Len(fr) : \A j \in 1 .. Len(fr) : fr[k].f_score <= fr[j].f_score}

remove_at(fr, k) == SubSeq(fr, 1, k - 1) \o SubSeq(fr, k + 1, Len(fr))

\* a test that lets a successor of equal tentative g through
AStar_skips_greater_only(g, successor_state, tentative_g) ==
    LET existing_g == HashMap_get(g, successor_state) IN
    existing_g # None /\ tentative_g > existing_g[1]

\* if let Some(&existing_g) = g_scores.get(&s) { if tentative_g >= existing_g { continue } }
AStar_skips(g, successor_state, tentative_g) ==
    LET existing_g == HashMap_get(g, successor_state) IN
    existing_g # None /\ tentative_g >= existing_g[1]

RECURSIVE AStar_expand(_, _, _, _, _, _)
AStar_expand(node, succs, i, fr, g, generated) ==
    IF i > Len(succs) THEN [frontier |-> fr, g_scores |-> g, generated |-> generated]
    ELSE LET successor_state == succs[i][1]
             cost == succs[i][2]
             tentative_g == node.path_cost + cost IN
         IF AStar_skips(g, successor_state, tentative_g)
         THEN AStar_expand(node, succs, i + 1, fr, g, generated)
         ELSE AStar_expand(node, succs, i + 1,
                  Append(fr, [node |-> child(node, successor_state, generated, cost),
                              f_score |-> tentative_g + heuristic(problem, successor_state)]),
                  HashMap_insert(g, successor_state, tentative_g),
                  generated + 1)

AStar_start ==
    /\ pc = "astar_start"
    /\ frontier' = <<[node |-> Node_new(initial_state(problem)),
                      f_score |-> heuristic(problem, initial_state(problem))]>>
    /\ explored' = {}
    /\ g_scores' = HashMap_insert(<<>>, initial_state(problem), 0)
    /\ put(generated_1(IF api = "shared" THEN shared ELSE Metrics_default))
    /\ start' = IF api = "shared" THEN start ELSE now
    /\ pc' = "astar_loop"
    /\ UNCHANGED <<otherVars, now, problem, algo_name, max_depth, api, shared_start,
                   dfs_max_depth, total_metrics, id_start, depth, bound, stack,
                   call, ret, result, res_search, res_shared, pops, goal_node>>

\* a loop that does not end when frontier.pop() returns None
AStar_exhausted_spins ==
    /\ pc = "astar_loop"
    /\ frontier = <<>>
    /\ UNCHANGED vars

\* the loop ends: frontier.pop() returns None
AStar_exhausted ==
    /\ pc = "astar_loop"
    /\ frontier = <<>>
    /\ LET m == stamp(set_memory_kb(cur, memory_estimate(Cardinality(explored))), start) IN
       /\ put(m)
       /\ result' = Some(SearchResult(None, m, 2))
    /\ pc' = "done"
    /\ UNCHANGED <<otherVars, now, problem, algo_name, max_depth, api, frontier, explored, g_scores,
                   start, shared_start, dfs_max_depth, total_metrics, id_start, depth,
                   bound, stack, call, ret, res_search, res_shared, pops, goal_node>>

\* a loop without the closed-list test: a popped node of an explored state
\* is expanded again and explored.insert overwrites the state's cost
AStar_loop_reopens ==
    /\ pc = "astar_loop"
    /\ \E k \in heap_top(frontier) :
        /\ IF api = "search" THEN pops' = Append(pops, k)
           ELSE IF pops # <<>> THEN k = Head(pops) /\ pops' = Tail(pops)
           ELSE pops' = pops
        /\ LET node == frontier[k].node
               rest == remove_at(frontier, k)
               m1 == visit(cur) IN
           IF is_goal(problem, node.state)
           THEN LET solution == extract_solution(node)
                    m == stamp(set_memory_kb(set_solution_length(m1, Len(solution)),
                                   memory_estimate(Cardinality(explored) + Len(rest))),
                               start) IN
                /\ put(m)
                /\ result' = Some(SearchResult(Some(solution), m, 0))
                /\ goal_node' = Some(node)
                /\ frontier' = rest
                /\ pc' = "done"
                /\ UNCHANGED <<explored, g_scores>>
           ELSE LET e == AStar_expand(node, successors(problem, node.state), 1, rest,
                                      g_scores, m1.nodes_generated) IN
                /\ explored' = {x \in explored : x[1] # node.state}
                                  \cup {<<node.state, node.path_cost>>}
                /\ frontier' = e.frontier
                /\ g_scores' = e.g_scores
                /\ put(update_max_frontier([m1 EXCEPT !.nodes_generated = e.generated],
                                           Len(e.frontier)))
                /\ UNCHANGED <<pc, result, goal_node>>
    /\ UNCHANGED <<otherVars, now, problem, algo_name, max_depth, api, start, shared_start,
                   dfs_max_depth, total_metrics, id_start, depth, bound, stack,
                   call, ret, res_search, res_shared>>

\* one turn of: while let Some(astar_node) = frontier.pop()
AStar_loop ==
    /\ pc = "astar_loop"
    /\ \E k \in heap_top(frontier) :
        /\ IF api = "search" THEN pops' = Append(pops, k)
           ELSE IF pops # <<>> THEN k = Head(pops) /\ pops' = Tail(pops)
           ELSE pops' = pops
        /\ LET node == frontier[k].node
               rest == remove_at(frontier, k)
               m1 == visit(cur) IN
           IF is_goal(problem, node.state)
           THEN LET solution == extract_solution(node)
                    m == stamp(set_memory_kb(set_solution_length(m1, Len(solution)),
                                   memory_estimate(Cardinality(explored) + Len(rest))),
                               start) IN
                /\ put(m)
                /\ result' = Some(SearchResult(Some(solution), m, 0))
                /\ goal_node' = Some(node)
                /\ frontier' = rest
                /\ pc' = "done"
                /\ UNCHANGED <<explored, g_scores>>
           ELSE IF \E e \in explored : e[1] = node.state
           THEN /\ put(m1)
                /\ frontier' = rest
                /\ UNCHANGED <<explored, g_scores, pc, result, goal_node>>
           ELSE LET e == AStar_expand(node, successors(problem, node.state), 1, rest,
                                      g_scores, m1.nodes_generated) IN
                /\ explored' = explored \cup {<<node.state, node.path_cost>>}
                /\ frontier' = e.frontier
                /\ g_scores' = e.g_scores
                /\ put(update_max_frontier([m1 EXCEPT !.nodes_generated = e.generated],
                                           Len(e.frontier)))
                /\ UNCHANGED <<pc, result, goal_node>>
    /\ UNCHANGED <<otherVars, now, problem, algo_name, max_depth, api, start, shared_start,
                   dfs_max_depth, total_metrics, id_start, depth, bound, stack,
                   call, ret, res_search, res_shared>>

---------------------------------------------------------------------------
(* IDAStar.  search_recursive is run on an explicit stack: a frame holds    *)
(* the node, the index i of the successor its for loop stands at, and       *)
(* min_bound.  call is the node of a call being entered, ret the pair a     *)
(* call returns.                                                            *)

\* IDAStar::new(max_depth * 2), as the runner builds it
max_bound == max_depth * 2

top == stack[Len(stack)]
pop_frame == SubSeq(stack, 1, Len(stack) - 1)
set_top(f) == [stack EXCEPT ![Len(stack)] = f]

IDAStar_start ==
    /\ pc = "ida_start"
    /\ bound' = heuristic(problem, initial_state(problem))
    /\ put(generated_1(IF api = "shared" THEN shared ELSE Metrics_default))
    /\ start' = IF api = "shared" THEN start ELSE now
    /\ pc' = "ida_iter"
    /\ UNCHANGED <<otherVars, now, problem, algo_name, max_depth, api, frontier, explored, g_scores,
                   shared_start, dfs_max_depth, total_metrics, id_start, depth, stack,
                   call, ret, result, res_search, res_shared, pops, goal_node>>

\* the head of the loop: a fresh explored set, search_recursive(initial_node, bound)
IDAStar_iter ==
    /\ pc = "ida_iter"
    /\ explored' = {}
    /\ stack' = <<>>
    /\ call' = Some(Node_new(initial_state(problem)))
    /\ ret' = None
    /\ pc' = "ida_rec"
    /\ UNCHANGED <<otherVars, now, problem, algo_name, max_depth, api, frontier, g_scores, metrics,
                   start, shared, shared_start, dfs_max_depth, total_metrics, id_start,
                   depth, bound, result, res_search, res_shared, pops, goal_node>>

\* search_recursive, from its entry to its for loop
search_recursive_enter ==
    /\ pc = "ida_rec"
    /\ call # None
    /\ LET node == call[1]
           f == node.path_cost + heuristic(problem, node.state) IN
       /\ put(visit(cur))
       /\ call' = None
       /\ IF f > bound
          THEN /\ ret' = Some([result |-> None, new_bound |-> f])
               /\ UNCHANGED <<explored, stack, goal_node>>
          ELSE IF is_goal(problem, node.state)
          THEN /\ ret' = Some([result |-> Some(extract_solution(node)), new_bound |-> 0])
               /\ goal_node' = Some(node)
               /\ UNCHANGED <<explored, stack>>
          ELSE /\ explored' = explored \cup {node.state}
               /\ stack' = Append(stack, [node |-> node, i |-> 1, min_bound |-> UsizeMax])
               /\ UNCHANGED <<ret, goal_node>>
    /\ UNCHANGED <<otherVars, now, problem, algo_name, max_depth, api, pc, frontier, g_scores,
                   start, shared_start, dfs_max_depth, total_metrics, id_start,
                   depth, bound, result, res_search, res_shared, pops>>

\* search_recursive, the head of one turn of its for loop, or the loop's end
search_recursive_loop ==
    /\ pc = "ida_rec"
    /\ call = None /\ ret = None /\ stack # <<>>
    /\ LET node == top.node
           succs == successors(problem, node.state) IN
       IF top.i > Len(succs)
       THEN /\ explored' = explored \ {node.state}
            /\ ret' = Some([result |-> None, new_bound |-> top.min_bound])
            /\ stack' = pop_frame
            /\ UNCHANGED <<call, metrics, shared>>
       ELSE IF succs[top.i][1] \in explored
       THEN /\ stack' = set_top([top EXCEPT !.i = @ + 1])
            /\ UNCHANGED <<explored, call, ret, metrics, shared>>
       ELSE /\ call' = Some(child(node, succs[top.i][1], cur.nodes_generated,
                                  succs[top.i][2]))
            /\ put(increment_generated(cur))
            /\ UNCHANGED <<explored, stack, ret>>
    /\ UNCHANGED <<otherVars, now, problem, algo_name, max_depth, api, pc, frontier, g_scores,
                   start, shared_start, dfs_max_depth, total_metrics, id_start,
                   depth, bound, result, res_search, res_shared, pops, goal_node>>

\* a for loop that keeps the bound of the last successor, not the least
search_recursive_return_last_bound ==
    /\ pc = "ida_rec"
    /\ ret # None /\ stack # <<>>
    /\ IF ret[1].result # None
       THEN /\ explored' = explored \ {top.node.state}
            /\ ret' = Some([result |-> ret[1].result, new_bound |-> 0])
            /\ stack' = pop_frame
       ELSE /\ stack' = set_top([top EXCEPT !.i = @ + 1,
                                            !.min_bound = ret[1].new_bound])
            /\ ret' = None
            /\ UNCHANGED explored
    /\ UNCHANGED <<otherVars, now, problem, algo_name, max_depth, api, pc, frontier, g_scores,
                   metrics, start, shared, shared_start, dfs_max_depth, total_metrics,
                   id_start, depth, bound, call, result, res_search, res_shared, pops,
                   goal_node>>

\* a return on success that leaves the node's state in explored
search_recursive_return_keeps_explored ==
    /\ pc = "ida_rec"
    /\ ret # None /\ stack # <<>>
    /\ IF ret[1].result # None
       THEN /\ ret' = Some([result |-> ret[1].result, new_bound |-> 0])
            /\ stack' = pop_frame
            /\ UNCHANGED explored
       ELSE /\ stack' = set_top([top EXCEPT !.i = @ + 1,
                                            !.min_bound = Min(@, ret[1].new_bound)])
            /\ ret' = None
            /\ UNCHANGED explored
    /\ UNCHANGED <<otherVars, now, problem, algo_name, max_depth, api, pc, frontier, g_scores,
                   metrics, start, shared, shared_start, dfs_max_depth, total_metrics,
                   id_start, depth, bound, call, result, res_search, res_shared, pops,
                   goal_node>>

\* search_recursive, after the recursive call of its for loop returned
search_recursive_return ==
    /\ pc = "ida_rec"
    /\ ret # None /\ stack # <<>>
    /\ IF ret[1].result # None
       THEN /\ explored' = explored \ {top.node.state}
            /\ ret' = Some([result |-> ret[1].result, new_bound |-> 0])
            /\ stack' = pop_frame
       ELSE /\ stack' = set_top([top EXCEPT !.i = @ + 1,
                                            !.min_bound = Min(@, ret[1].new_bound)])
            /\ ret' = None
            /\ UNCHANGED explored
    /\ UNCHANGED <<otherVars, now, problem, algo_name, max_depth, api, pc, frontier, g_scores,
                   metrics, start, shared, shared_start, dfs_max_depth, total_metrics,
                   id_start, depth, bound, call, result, res_search, res_shared, pops,
                   goal_node>>

\* the loop of search after search_recursive(initial_node, bound) returned
IDAStar_after ==
    /\ pc = "ida_rec"
    /\ ret # None /\ stack = <<>>
    /\ IF ret[1].result # None
       THEN LET solution == ret[1].result[1]
                m == stamp(set_memory_kb(set_solution_length(cur, Len(solution)),
                               memory_estimate(Cardinality(explored))),
                           start) IN
            /\ put(m)
            /\ result' = Some(SearchResult(Some(solution), m, 0))
            /\ pc' = "done"
            /\ UNCHANGED bound
       ELSE IF ret[1].new_bound = UsizeMax \/ bound >= max_bound
       THEN LET m == stamp(cur, start) IN
            /\ put(m)
            /\ result' = Some(SearchResult(None, m, 2))
            /\ pc' = "done"
            /\ UNCHANGED bound
       ELSE /\ bound' = ret[1].new_bound
            /\ pc' = "ida_iter"
            /\ UNCHANGED <<metrics, shared, result>>
    /\ ret' = None
    /\ UNCHANGED <<otherVars, now, problem, algo_name, max_depth, api, frontier, explored, g_scores,
                   start, shared_start, dfs_max_depth, total_metrics, id_start,
                   depth, stack, call, res_search, res_shared, pops, goal_node>>

---------------------------------------------------------------------------
(* The specification of the search runs *)

Next ==
    \/ execute_algorithm
    \/ execute_algorithm_with_shared
    \/ returned
    \/ BFS_start \/ BFS_loop
    \/ DFS_start \/ DFS_loop
    \/ ID_start \/ ID_loop \/ ID_after
    \/ AStar_start \/ AStar_loop \/ AStar_exhausted
    \/ IDAStar_start \/ IDAStar_iter \/ IDAStar_after
    \/ search_recursive_enter \/ search_recursive_loop \/ search_recursive_return

Spec == Init /\ [][Next]_vars

---------------------------------------------------------------------------
(* Reference notions the claims are stated with *)

NodesOf(p) == DOMAIN p.graph
EdgesFrom(p, u) == {p.graph[u][i] : i \in 1 .. Len(p.graph[u])}
MinOf(S) == CHOOSE x \in S : \A y \in S : x <= y

\* the costs of the walks of at most k edges from u to the goal
RECURSIVE WalkCosts(_, _, _)
WalkCosts(p, u, k) ==
    (IF is_goal(p, u) THEN {0} ELSE {})
        \cup (IF k = 0 THEN {}
              ELSE UNION {{e[2] + w : w \in WalkCosts(p, e[1], k - 1)} : e \in EdgesFrom(p, u)})

\* the lengths of the walks of at most k edges from u to the goal
RECURSIVE WalkLengths(_, _, _)
WalkLengths(p, u, k) ==
    (IF is_goal(p, u) THEN {0} ELSE {})
        \cup (IF k = 0 THEN {}
              ELSE UNION {{1 + w : w \in WalkLengths(p, e[1], k - 1)} : e \in EdgesFrom(p, u)})

\* a cheapest (shortest) walk to the goal is a simple path: fewer edges than nodes
Reachable(p, u) == WalkCosts(p, u, Cardinality(NodesOf(p)) - 1) # {}
MinCostFrom(p, u) == MinOf(WalkCosts(p, u, Cardinality(NodesOf(p)) - 1))
MinCost(p) == MinCostFrom(p, p.start)
MinSteps(p) == MinOf(WalkLengths(p, p.start, Cardinality(NodesOf(p)) - 1))

\* the nodes reached from u by a walk of 1..k edges
RECURSIVE After(_, _, _)
After(p, u, k) ==
    IF k = 0 THEN {}
    ELSE LET next == {e[1] : e \in EdgesFrom(p, u)} IN
         next \cup UNION {After(p, v, k - 1) : v \in next}

Acyclic(p) == \A u \in NodesOf(p) : u \notin After(p, u, Cardinality(NodesOf(p)))
UnitCost(p) == \A u \in NodesOf(p) : \A e \in EdgesFrom(p, u) : e[2] = 1

Admissible(p) ==
    \A u \in NodesOf(p) : Reachable(p, u) => heuristic(p, u) <= MinCostFrom(p, u)
Consistent(p) ==
    /\ heuristic(p, p.goal) = 0
    /\ \A u \in NodesOf(p) : \A e \in EdgesFrom(p, u) :
           heuristic(p, u) <= e[2] + heuristic(p, e[1])

\* the parent chain of a node is a path of the graph from the initial state,
\* and path_cost is the sum of its edge costs
RECURSIVE IsPath(_, _)
IsPath(p, node) ==
    IF node.parent = None THEN node.state = initial_state(p) /\ node.path_cost = 0
    ELSE /\ <<node.state, node.path_cost - node.parent[1].path_cost>>
                \in EdgesFrom(p, node.parent[1].state)
         /\ IsPath(p, node.parent[1])

\* the two returns of the harness, once made
Returns == {r \in {res_search, res_shared} : r # None}
Succeeded(r) == r[1].r.status = 0

---------------------------------------------------------------------------
(* Claims about the search algorithms *)

\* C1: on a finite acyclic problem whose edges all cost 1 and in which a goal
\* is reachable, BFS.search returns Success with a solution whose length is
\* the minimum number of actions from the initial state to a goal state.
C1_BFSStepOptimal ==
    (/\ algo_name = "BFS"
     /\ res_search # None
     /\ Acyclic(problem)
     /\ UnitCost(problem)
     /\ Reachable(problem, problem.start))
    => /\ Succeeded(res_search)
       /\ res_search[1].r.solution # None
       /\ Len(res_search[1].r.solution[1]) = MinSteps(problem)

\* BFS has returned a two-action solution on an acyclic unit-cost graph that
\* also holds a goal path of three actions
C1_Witness ==
    /\ algo_name = "BFS"
    /\ res_search # None
    /\ Acyclic(problem)
    /\ UnitCost(problem)
    /\ {2, 3} \subseteq WalkLengths(problem, problem.start, 4)
    /\ 1 \notin WalkLengths(problem, problem.start, 4)
    /\ Succeeded(res_search)
    /\ Len(res_search[1].r.solution[1]) = 2

\* C2: with an admissible and consistent heuristic and a reachable goal (and
\* an IDAStar max_bound of at least the optimal cost), AStar and IDAStar
\* return Success with a path of the minimum goal path cost, so both of the
\* same cost, and no solution of BFS, DFS or Iterative Deepening on the
\* same graph costs less.  The cost of a returned solution is the path cost
\* of the goal node it was extracted from, whose parent chain is a path of
\* the graph.
C2_InformedCostOptimal ==
    \A r \in Returns :
        (/\ Reachable(problem, problem.start)
         /\ Admissible(problem)
         /\ Consistent(problem))
        => /\ (/\ algo_name \in {"A*", "IDA*"}
               /\ algo_name = "IDA*" => max_bound >= MinCost(problem))
              => /\ Succeeded(r)
                 /\ r[1].goal_node # None
                 /\ is_goal(problem, r[1].goal_node[1].state)
                 /\ IsPath(problem, r[1].goal_node[1])
                 /\ r[1].goal_node[1].path_cost = MinCost(problem)
           /\ (algo_name \in {"BFS", "DFS", "ID"} /\ Succeeded(r))
              => /\ r[1].goal_node # None
                 /\ is_goal(problem, r[1].goal_node[1].state)
                 /\ IsPath(problem, r[1].goal_node[1])
                 /\ r[1].goal_node[1].path_cost >= MinCost(problem)

\* AStar has returned a cheapest path although a costlier goal path exists,
\* under a consistent heuristic that is not zero everywhere
C2_Witness ==
    /\ algo_name = "A*"
    /\ res_search # None
    /\ Consistent(problem)
    /\ Admissible(problem)
    /\ heuristic(problem, problem.start) > 0
    /\ Succeeded(res_search)
    /\ res_search[1].goal_node[1].path_cost = MinCost(problem)
    /\ \E c \in WalkCosts(problem, problem.start, 2) : c > MinCost(problem)

\* the nodes the running algorithm holds
LiveNodes ==
    {IF algo_name = "A*" THEN frontier[k].node ELSE frontier[k] : k \in 1 .. Len(frontier)}
        \cup {stack[k].node : k \in 1 .. Len(stack)}
        \cup {call[k] : k \in 1 .. Len(call)}
        \cup {goal_node[k] : k \in 1 .. Len(goal_node)}

\* C3: the action of a non-root node is the index of the successor edge
\* taken: the position of the child's (state, cost) pair within
\* successors(parent.state).
C3_ActionIsSuccessorIndex ==
    \A node \in LiveNodes :
        node.parent # None
        => LET succs == successors(problem, node.parent[1].state)
               a == node.action[1] IN
           /\ a < Len(succs)
           /\ succs[a + 1] = <<node.state, node.path_cost - node.parent[1].path_cost>>

\* C5: search_with_shared_metrics on a fresh SharedMetrics returns the same
\* status, solution, nodes_visited, nodes_generated, max_frontier_size and
\* solution_length as search.
C5_SharedSameAsSearch ==
    (res_search # None /\ res_shared # None)
    => LET a == res_search[1].r
           b == res_shared[1].r IN
       /\ a.status = b.status
       /\ a.solution = b.solution
       /\ a.metrics.nodes_visited = b.metrics.nodes_visited
       /\ a.metrics.nodes_generated = b.metrics.nodes_generated
       /\ a.metrics.max_frontier_size = b.metrics.max_frontier_size
       /\ a.metrics.solution_length = b.metrics.solution_length

\* the Metrics record the returning algorithm has counted in
counted ==
    IF api = "shared" THEN shared
    ELSE IF algo_name = "ID" THEN total_metrics ELSE metrics

\* C10: in search and in search_with_shared_metrics of each algorithm the
\* result has status 0 exactly if it carries a solution, every other result
\* has status 2 and no solution, a Success result's solution_length is the
\* length of its solution, and a NoSolution result (no goal was popped)
\* carries the counters accumulated so far.
C10_StatusSolutionMetrics ==
    pc = "done"
    => LET r == result[1] IN
       /\ r.status \in {0, 2}
       /\ r.status = 0 <=> r.solution # None
       /\ r.status = 0 => r.metrics.solution_length = Len(r.solution[1])
       /\ r.status = 2
          => /\ goal_node = None
             /\ r.metrics.nodes_visited >= 1
             /\ r.metrics.nodes_visited = counted.nodes_visited
             /\ r.metrics.nodes_generated = counted.nodes_generated
             /\ r.metrics.max_frontier_size = counted.max_frontier_size

\* a search has exhausted its space after visiting several nodes, and
\* returns NoSolution
C10_Witness ==
    /\ pc = "done"
    /\ result[1].status = 2
    /\ result[1].solution = None
    /\ result[1].metrics.nodes_visited >= 3
    /\ result[1].metrics.nodes_generated >= 3

---------------------------------------------------------------------------
(* Node chains: Node::new followed by calls to child with any arguments *)

ChainStates == 0 .. 1
ChainActions == 0 .. 2

\* a problem nothing is searched in
NoProblem ==
    [graph |-> [u \in Nodes |-> <<>>], start |-> 0, goal |-> 2,
     heuristic_values |-> [u \in Nodes |-> 0]]

\* no algorithm is being executed
Init_search ==
    /\ problem = NoProblem
    /\ algo_name = "BFS"
    /\ max_depth = 0
    /\ api = "search"
    /\ pc = "idle"
    /\ res_search = None
    /\ res_shared = None
    /\ pops = <<>>
    /\ Init_work

InitNode ==
    /\ now = 0
    /\ Init_search
    /\ built \in {Node_new(state) : state \in ChainStates}
    /\ passed = <<>>
    /\ step_costs = <<>>
    /\ Init_threads
    /\ Init_ext
    /\ Init_run

\* built = built.child(state, action, step_cost)
Node_child ==
    /\ built.depth < MaxChain
    /\ \E state \in ChainStates, action \in ChainActions, step_cost \in Costs :
          /\ built' = child(built, state, action, step_cost)
          /\ passed' = Append(passed, action)
          /\ step_costs' = Append(step_costs, step_cost)
    /\ UNCHANGED <<now, searchVars, threadVars, runVars, extVars>>

NextNode == Node_child

SpecNode == InitNode /\ [][NextNode]_vars

\* C4: for a node built by Node::new and d calls to child, extract_solution
\* returns exactly d entries, the action arguments of those calls in
\* root-to-node order; on a root node it returns the empty sequence.
C4_ExtractSolutionIsActionsPassed ==
    /\ extract_solution(built) = passed
    /\ Len(extract_solution(built)) = built.depth
    /\ built.parent = None => extract_solution(built) = <<>>

\* a node three calls deep whose first and last action arguments differ
C4_Witness ==
    /\ built.depth = 3
    /\ passed[1] # passed[3]
    /\ extract_solution(built) = passed

---------------------------------------------------------------------------
(* SharedMetrics called from several threads.  Each thread calls methods   *)
(* on its clone; a call takes the Mutex, runs its body one memory access   *)
(* at a time, and releases the Mutex when its guard is dropped.            *)

SizeArgs == 1 .. 2
Mutators == Methods \ {"get"}

\* the arguments a call of method f may pass
ArgsOf(f) ==
    IF f \in {"update_max_frontier", "set_memory_kb", "set_solution_length"}
    THEN SizeArgs ELSE {0}

\* a lock that never makes a caller wait
MutexUnguarded(holder) == TRUE

\* self.inner.lock() returns once no other thread holds the Mutex
MutexFree(holder) == holder = None

\* the field a method's body writes
field_of(f) ==
    CASE f = "update" -> "nodes_generated"
      [] f = "increment_visited" -> "nodes_visited"
      [] f = "increment_generated" -> "nodes_generated"
      [] f = "update_max_frontier" -> "max_frontier_size"
      [] f = "set_memory_kb" -> "memory_kb"
      [] f = "set_solution_length" -> "solution_length"

\* the first access of a body: += and max read the field, the others only write
after_lock(f) ==
    CASE f = "get" -> "clone"
      [] f \in {"increment_visited", "increment_generated", "update_max_frontier"} -> "load"
      [] OTHER -> "store"

\* the value a body writes, given the value reg it read
stored(f, reg, arg) ==
    CASE f = "update" -> 1
      [] f \in {"increment_visited", "increment_generated"} -> reg + 1
      [] f = "update_max_frontier" -> Max(reg, arg)
      [] OTHER -> arg

\* the bodies that end with metrics.time_ms = self.start.elapsed().as_millis()
refreshes_time(f) == f \in {"update", "increment_visited"}

InitShared ==
    /\ now = 0
    /\ Init_search
    /\ Init_chain
    /\ Init_threads
    /\ Init_ext
    /\ Init_run

\* a thread begins a call of a method on its clone
SharedMetrics_call(t) ==
    /\ th[t].pc = "idle"
    /\ calls < MaxCalls
    /\ \E f \in Methods : \E a \in ArgsOf(f) :
          th' = [th EXCEPT ![t] = [pc |-> "lock", op |-> f, arg |-> a, reg |-> 0,
                                   began |-> elapsed_ms(shared_start), got |-> None]]
    /\ calls' = calls + 1
    /\ UNCHANGED <<now, searchVars, chainVars, runVars, extVars, mutex, completed, max_arg, stable>>

\* self.inner.lock()
SharedMetrics_lock(t) ==
    /\ th[t].pc = "lock"
    /\ MutexFree(mutex)
    /\ mutex' = Some(t)
    /\ th' = [th EXCEPT ![t].pc = after_lock(th[t].op)]
    /\ UNCHANGED <<now, searchVars, chainVars, runVars, extVars, calls, completed, max_arg, stable>>

\* the read of metrics.field in += 1 and in .max(size)
SharedMetrics_load(t) ==
    /\ th[t].pc = "load"
    /\ th' = [th EXCEPT ![t].reg = shared[field_of(th[t].op)], ![t].pc = "store"]
    /\ UNCHANGED <<now, searchVars, chainVars, runVars, extVars, mutex, calls, completed, max_arg, stable>>

\* the write of metrics.field
SharedMetrics_store(t) ==
    /\ th[t].pc = "store"
    /\ shared' = [shared EXCEPT ![field_of(th[t].op)] =
                                    stored(th[t].op, th[t].reg, th[t].arg)]
    /\ th' = [th EXCEPT ![t].pc = IF refreshes_time(th[t].op) THEN "time" ELSE "unlock"]
    /\ UNCHANGED <<now, algVars, chainVars, runVars, extVars, mutex, calls, completed, max_arg, stable>>

\* metrics.time_ms = self.start.elapsed().as_millis() as f64
SharedMetrics_time(t) ==
    /\ th[t].pc = "time"
    /\ shared' = [shared EXCEPT !.time_ms = elapsed_ms(shared_start)]
    /\ th' = [th EXCEPT ![t].pc = "unlock"]
    /\ UNCHANGED <<now, algVars, chainVars, runVars, extVars, mutex, calls, completed, max_arg, stable>>

\* get: m.clone() under the lock
SharedMetrics_clone(t) ==
    /\ th[t].pc = "clone"
    /\ th' = [th EXCEPT ![t].got = Some(get(shared)), ![t].pc = "unlock"]
    /\ UNCHANGED <<now, searchVars, chainVars, runVars, extVars, mutex, calls, completed, max_arg, stable>>

\* the MutexGuard is dropped and the call returns
SharedMetrics_unlock(t) ==
    /\ th[t].pc = "unlock"
    /\ mutex' = None
    /\ th' = [th EXCEPT ![t].pc = "idle"]
    /\ completed' = [completed EXCEPT ![th[t].op] = @ + 1]
    /\ max_arg' = IF th[t].op = "update_max_frontier" THEN Max(max_arg, th[t].arg)
                  ELSE max_arg
    /\ stable' = shared
    /\ UNCHANGED <<now, searchVars, chainVars, runVars, extVars, calls>>

\* time passes
Tick ==
    /\ now < MaxTime
    /\ now' = now + 1
    /\ UNCHANGED <<searchVars, otherVars>>

NextShared ==
    \/ \E t \in Threads :
          \/ SharedMetrics_call(t)
          \/ SharedMetrics_lock(t)
          \/ SharedMetrics_load(t)
          \/ SharedMetrics_store(t)
          \/ SharedMetrics_time(t)
          \/ SharedMetrics_clone(t)
          \/ SharedMetrics_unlock(t)
    \/ Tick

SpecShared == InitShared /\ [][NextShared]_vars

\* no call is in progress
AllReturned == \A t \in Threads : th[t].pc = "idle"

\* C7: once every call has returned, nodes_visited is the number of
\* increment_visited calls made, nodes_generated the number of
\* increment_generated calls made (when no update closure has set it), and
\* max_frontier_size the largest argument passed to update_max_frontier:
\* no update is lost in any interleaving.
C7_NoLostUpdate ==
    AllReturned
    => /\ shared.nodes_visited = completed["increment_visited"]
       /\ completed["update"] = 0
             => shared.nodes_generated = completed["increment_generated"]
       /\ shared.max_frontier_size = max_arg

\* both threads have each called increment_visited and every call has returned
C7_Witness ==
    /\ AllReturned
    /\ \A t \in Threads : th[t].op = "increment_visited"
    /\ completed["increment_visited"] >= 2
    /\ shared.nodes_visited = completed["increment_visited"]

\* C8: the record a get() clones is the Metrics as the last complete
\* mutation call left it: no call is partly applied in it.
C8_GetIsConsistentSnapshot ==
    \A t \in Threads :
        (th[t].pc = "unlock" /\ th[t].op = "get") => th[t].got = Some(stable)

\* a get has cloned a record that a complete increment_visited left, while
\* the other thread is inside a mutating call and waits for the Mutex
C8_Witness ==
    \E t \in Threads : \E u \in Threads \ {t} :
        /\ th[t].pc = "unlock"
        /\ th[t].op = "get"
        /\ th[t].got = Some(stable)
        /\ stable.nodes_visited = 1
        /\ stable.time_ms > 0
        /\ th[u].pc = "lock"
        /\ th[u].op \in Mutators

\* C9: after a mutating call has returned, time_ms is at least the elapsed
\* time at which the call began, whichever of update, increment_visited,
\* increment_generated, update_max_frontier, set_memory_kb and
\* set_solution_length it was.
C9_MutationRefreshesTime ==
    \A t \in Threads :
        (th[t].pc = "idle" /\ th[t].op \in Mutators) => shared.time_ms >= th[t].began

---------------------------------------------------------------------------
(* execute_with_timeout with timeout_secs > 0: the caller spawns a worker  *)
(* thread that runs execute_algorithm_with_shared on a clone of a fresh    *)
(* SharedMetrics and sends its result, and waits in recv_timeout.  A turn  *)
(* of a worker loop counts as one step; each SharedMetrics call in it is   *)
(* atomic under the Mutex.                                                 *)

\* the unit-cost problems without heuristic
RunnerProblems ==
    {p \in WeightedProblems :
        /\ UnitCost(p)
        /\ \A u \in DOMAIN p.graph : p.heuristic_values[u] = 0}

InitRunner ==
    /\ now = 0
    /\ algo_name \in Algorithms
    /\ problem \in RunnerProblems
    /\ max_depth \in 0 .. MaxDepth
    /\ algo_name \in {"BFS", "A*"} => max_depth = MaxDepth
    /\ api = "shared"
    /\ pc = "idle"
    /\ res_search = None
    /\ res_shared = None
    /\ pops = <<>>
    /\ Init_work
    /\ Init_chain
    /\ Init_threads
    /\ Init_ext
    /\ timeout_secs \in 0 .. MaxTime
    /\ run_pc = "call"
    /\ tx = None
    /\ deadline = 0
    /\ run_result = None
    /\ spawned = 0

\* channel(), SharedMetrics::new(), thread::spawn, and the call of recv_timeout
execute_with_timeout ==
    /\ run_pc = "call"
    /\ timeout_secs > 0
    /\ shared' = Metrics_default
    /\ shared_start' = now
    /\ api' = "shared"
    /\ pc' = entry(algo_name)
    /\ dfs_max_depth' = Some(max_depth)
    /\ deadline' = now + timeout_secs
    /\ run_pc' = "recv"
    /\ spawned' = spawned + 1
    /\ UNCHANGED <<now, problem, algo_name, max_depth, frontier, explored, g_scores,
                   metrics, start, total_metrics, id_start, depth, bound, stack,
                   call, ret, result, res_search, res_shared, pops, goal_node,
                   chainVars, threadVars, extVars, timeout_secs, tx, run_result>>

\* the else branch: Self::execute_algorithm(algo_name, problem, max_depth) is
\* called on the caller's own thread
execute_without_timeout ==
    /\ run_pc = "call"
    /\ timeout_secs = 0
    /\ api' = "search"
    /\ pc' = entry(algo_name)
    /\ dfs_max_depth' = Some(max_depth)
    /\ run_pc' = "inline"
    /\ UNCHANGED <<now, problem, algo_name, max_depth, frontier, explored, g_scores,
                   metrics, start, shared, shared_start, total_metrics, id_start,
                   depth, bound, stack, call, ret, result, res_search, res_shared,
                   pops, goal_node, chainVars, threadVars, extVars, timeout_secs, tx, deadline,
                   run_result, spawned>>

\* execute_algorithm returns and its result is the result of the task
inline_return ==
    /\ run_pc = "inline"
    /\ pc = "done"
    /\ pc' = "exited"
    /\ run_result' = Some(result[1])
    /\ run_pc' = "returned"
    /\ UNCHANGED <<now, problem, algo_name, max_depth, api, frontier, explored,
                   g_scores, metrics, start, shared, shared_start, dfs_max_depth,
                   total_metrics, id_start, depth, bound, stack, call, ret, result,
                   res_search, res_shared, pops, goal_node,
                   chainVars, threadVars, extVars, timeout_secs, tx, deadline, spawned>>

\* the worker: let _ = tx.send(res), which fails once the receiver is dropped
worker_send ==
    /\ api = "shared"
    /\ pc = "done"
    /\ pc' = "exited"
    /\ tx' = IF run_pc = "returned" THEN tx ELSE Some(result[1])
    /\ UNCHANGED <<now, problem, algo_name, max_depth, api, frontier, explored,
                   g_scores, metrics, start, shared, shared_start, dfs_max_depth,
                   total_metrics, id_start, depth, bound, stack, call, ret, result,
                   res_search, res_shared, pops, goal_node,
                   chainVars, threadVars, extVars, timeout_secs, run_pc, deadline, run_result,
                   spawned>>

\* rx.recv_timeout(timeout_duration) returns Ok(res)
recv_Ok ==
    /\ run_pc = "recv"
    /\ tx # None
    /\ run_result' = Some(tx[1])
    /\ tx' = None
    /\ run_pc' = "returned"
    /\ UNCHANGED <<now, searchVars, chainVars, threadVars, extVars, timeout_secs, deadline,
                   spawned>>

\* rx.recv_timeout(timeout_duration) returns Err(RecvTimeoutError::Timeout)
recv_Timeout ==
    /\ run_pc = "recv"
    /\ tx = None
    /\ now >= deadline
    /\ run_pc' = "timeout"
    /\ UNCHANGED <<now, searchVars, chainVars, threadVars, extVars, timeout_secs, tx, deadline,
                   run_result, spawned>>

\* the Timeout arm: partial_metrics = shared_metrics.get(), and the result
timeout_result ==
    /\ run_pc = "timeout"
    /\ run_result' = Some(SearchResult(None, get(shared), 1))
    /\ run_pc' = "returned"
    /\ UNCHANGED <<now, searchVars, chainVars, threadVars, extVars, timeout_secs, tx, deadline,
                   spawned>>

NextRunner ==
    \/ execute_with_timeout
    \/ execute_without_timeout
    \/ inline_return
    \/ recv_Ok
    \/ recv_Timeout
    \/ timeout_result
    \/ worker_send
    \/ Tick
    \/ BFS_start \/ BFS_loop
    \/ DFS_start \/ DFS_loop
    \/ ID_start \/ ID_loop \/ ID_after
    \/ AStar_start \/ AStar_loop \/ AStar_exhausted
    \/ IDAStar_start \/ IDAStar_iter \/ IDAStar_after
    \/ search_recursive_enter \/ search_recursive_loop \/ search_recursive_return

SpecRunner == InitRunner /\ [][NextRunner]_vars

\* C6: when recv_timeout has expired before the worker sent, the step that
\* returns from execute_with_timeout yields status 1, no solution and the
\* metrics the SharedMetrics holds at that step, after the expiry; no later
\* step, of the worker or of the clock, changes the returned result.
C6_TimeoutResultIsSnapshot ==
    /\ [][(run_pc = "timeout" /\ run_pc' # "timeout")
            => run_result' = Some([solution |-> None, metrics |-> shared, status |-> 1])]_vars
    /\ [][run_result # None => run_result' = run_result]_vars
    /\ [](run_pc = "timeout" => (now >= deadline /\ run_result = None))

\* a Timeout result has been returned, and the worker has since visited and
\* generated more nodes in the SharedMetrics than the result shows
C6_Witness ==
    /\ run_pc = "returned"
    /\ run_result # None
    /\ run_result[1].status = 1
    /\ run_result[1].solution = None
    /\ run_result[1].metrics.nodes_visited >= 1
    /\ shared.nodes_visited > run_result[1].metrics.nodes_visited
    /\ shared.nodes_generated > run_result[1].metrics.nodes_generated

\* a goal is reached from the initial state by a path of at most k actions
GoalWithin(p, k) == WalkLengths(p, initial_state(p), k) # {}

\* C11: with timeout_secs = 0 execute_with_timeout spawns no worker and never
\* yields status Timeout (1); DFS and Iterative Deepening with max_depth L,
\* on a problem with no goal within L actions, return NoSolution (2).
C11_NoTimeoutWithoutTimer ==
    timeout_secs = 0
    => /\ spawned = 0
       /\ run_pc \notin {"recv", "timeout"}
       /\ tx = None
       /\ run_result # None
          => /\ run_result[1].status \in {0, 2}
             /\ (algo_name \in {"DFS", "ID"} /\ ~GoalWithin(problem, max_depth))
                => (run_result[1].status = 2 /\ run_result[1].solution = None)

\* without a timeout, Iterative Deepening with max_depth 1 has returned
\* NoSolution on a graph whose goal is two actions away
C11_Witness ==
    /\ timeout_secs = 0
    /\ algo_name = "ID"
    /\ max_depth = 1
    /\ GoalWithin(problem, 2)
    /\ ~GoalWithin(problem, 1)
    /\ run_pc = "returned"
    /\ run_result # None
    /\ run_result[1].status = 2
    /\ run_result[1].metrics.nodes_visited >= 2

---------------------------------------------------------------------------
(* Further claims about the search algorithms, under Spec *)

\* every path to a goal costs more than b
NoGoalWithinCost(p, b) ==
    ~Reachable(p, initial_state(p)) \/ MinCost(p) > b

\* C12: IDAStar with max_bound B, on a problem whose goal paths all cost
\* more than B, runs no iteration with a cost bound above B and returns
\* NoSolution, never Success with a solution costing more than B.
C12_IDAStarKeepsWithinMaxBound ==
    (algo_name = "IDA*" /\ NoGoalWithinCost(problem, max_bound))
    => /\ bound <= max_bound
       /\ \A r \in Returns : r[1].r.status = 2 /\ r[1].r.solution = None

\* C13: when the initial state satisfies is_goal, each of the five
\* algorithms (DFS and Iterative Deepening with any max_depth >= 0) returns
\* Success with an empty solution and solution_length 0, having visited
\* exactly one node.
C13_GoalAtStart ==
    \A r \in Returns :
        is_goal(problem, initial_state(problem))
        => /\ r[1].r.status = 0
           /\ r[1].r.solution = Some(<<>>)
           /\ r[1].r.metrics.solution_length = 0
           /\ r[1].r.metrics.nodes_visited = 1

\* DFS with max_depth 0 has returned from both entry points on a problem
\* whose start node is the goal and has outgoing edges
C13_Witness ==
    /\ algo_name = "DFS"
    /\ max_depth = 0
    /\ is_goal(problem, initial_state(problem))
    /\ successors(problem, initial_state(problem)) # <<>>
    /\ res_search # None
    /\ res_shared # None
    /\ res_shared[1].r.solution = Some(<<>>)

---------------------------------------------------------------------------
(* ShortestPath::generate_grid, and BFS and AStar searching the grid *)

abs_diff(a, b) == IF a >= b THEN a - b ELSE b - a

\* a grid cell without its edge to the right
grid_edges_no_right(width, height, current) ==
    LET row == current \div width
        col == current % width IN
    (IF row < height - 1 THEN <<<<current + width, 1>>>> ELSE <<>>)
        \o (IF col > 0 THEN <<<<current - 1, 1>>>> ELSE <<>>)
        \o (IF row > 0 THEN <<<<current - width, 1>>>> ELSE <<>>)

\* the add_edge calls of one cell, in order: right, down, left, up
grid_edges(width, height, current) ==
    LET row == current \div width
        col == current % width IN
    (IF col < width - 1 THEN <<<<current + 1, 1>>>> ELSE <<>>)
        \o (IF row < height - 1 THEN <<<<current + width, 1>>>> ELSE <<>>)
        \o (IF col > 0 THEN <<<<current - 1, 1>>>> ELSE <<>>)
        \o (IF row > 0 THEN <<<<current - width, 1>>>> ELSE <<>>)

\* the distance between the numbers of the two cells
grid_heuristic_cell_numbers(width, goal, current) == abs_diff(current, goal)

\* the Manhattan distance from a cell to the goal cell
grid_heuristic(width, goal, current) ==
    abs_diff(current \div width, goal \div width)
        + abs_diff(current % width, goal % width)

generate_grid(width, height) ==
    LET goal == width * height - 1 IN
    [graph |-> [current \in 0 .. width * height - 1 |->
                    grid_edges(width, height, current)],
     start |-> 0,
     goal |-> goal,
     heuristic_values |-> [current \in 0 .. width * height - 1 |->
                               grid_heuristic(width, goal, current)]]

\* benchmark_shortest_path: generate_grid(size, size), handed with a fresh
\* SharedMetrics to search_with_shared_metrics of BFS or AStar
InitGrid ==
    /\ now = 0
    /\ algo_name \in {"BFS", "A*"}
    /\ \E size \in 2 .. MaxGrid : problem = generate_grid(size, size)
    /\ max_depth = MaxDepth
    /\ api = "shared"
    /\ pc = entry(algo_name)
    /\ res_search = None
    /\ res_shared = None
    /\ pops = <<>>
    /\ Init_work
    /\ Init_chain
    /\ Init_threads
    /\ Init_ext
    /\ Init_run

NextGrid ==
    \/ returned
    \/ BFS_start \/ BFS_loop
    \/ AStar_start \/ AStar_loop

SpecGrid == InitGrid /\ [][NextGrid]_vars

\* the side N of a square grid problem
GridSide(p) == CHOOSE n \in 1 .. MaxGrid + 1 : n * n = Cardinality(DOMAIN p.graph)

\* C14: on generate_grid(N, N) with N >= 2, BFS returns a solution of
\* length 2*(N-1), and AStar with the stored Manhattan heuristic returns a
\* solution of the same length whose path cost is 2*(N-1).
C14_GridShortestPath ==
    res_shared # None
    => LET n == GridSide(problem)
           r == res_shared[1] IN
       /\ r.r.status = 0
       /\ r.r.solution # None
       /\ Len(r.r.solution[1]) = 2 * (n - 1)
       /\ r.goal_node # None
       /\ r.goal_node[1].state = n * n - 1
       /\ IsPath(problem, r.goal_node[1])
       /\ algo_name = "A*" => r.goal_node[1].path_cost = 2 * (n - 1)

\* AStar has returned a four-action path on the 3 x 3 grid
C14_Witness ==
    /\ algo_name = "A*"
    /\ problem = generate_grid(3, 3)
    /\ res_shared # None
    /\ Len(res_shared[1].r.solution[1]) = 4
    /\ res_shared[1].goal_node[1].path_cost = 4

-----------------------------------------------------------------------------
\* SpecRandom: ShortestPath::generate_random_with_seed, one step per iteration
\* of its two loops. The random generator is a free choice in the range of
\* each gen_range call; the model draws the two ends of each range.

\* rng.gen_range(1..10): the ends of the range
CostDraws == {1, 9}
\* rng.gen_range(0..20): the ends of the range
HeuristicDraws == {0, 19}

\* a map without keys reads as the empty list (successors: unwrap_or_default)
\* and as 0 (heuristic: unwrap_or(&0))
ShortestPath_new(s, g) ==
    [graph |-> [u \in Nodes |-> <<>>], start |-> s, goal |-> g,
     heuristic_values |-> [u \in Nodes |-> 0]]

add_edge(p, from, to, cost) ==
    [p EXCEPT !.graph[from] = Append(@, <<to, cost>>)]

set_heuristic(p, node, h) ==
    [p EXCEPT !.heuristic_values[node] = h]

\* benchmark_shortest_path_random: start 0, goal nodes - 1
InitRandom ==
    /\ now = 0
    /\ Init_search
    /\ Init_chain
    /\ Init_threads
    /\ Init_run
    /\ Init_pool
    /\ Init_agg
    /\ Init_heap
    /\ Init_ebf
    /\ gen_pc = "new"
    /\ gen_i = 0
    /\ gen_edges \in 0 .. MaxRandomEdges

generate_random_new ==
    /\ gen_pc = "new"
    /\ problem' = ShortestPath_new(0, Cardinality(Nodes) - 1)
    /\ gen_pc' = "edges"
    /\ gen_i' = 0
    /\ UNCHANGED <<now, algo_name, max_depth, api, pc, res_search, res_shared, pops,
                   workVars, chainVars, threadVars, runVars, poolVars, aggVars, heapVars, ebfVars, gen_edges>>

\* one iteration of for _ in 0..edges
generate_random_edge ==
    /\ gen_pc = "edges"
    /\ gen_i < gen_edges
    /\ \E from \in Nodes, to \in Nodes, cost \in CostDraws :
           problem' = IF from # to THEN add_edge(problem, from, to, cost) ELSE problem
    /\ gen_i' = gen_i + 1
    /\ UNCHANGED <<now, algo_name, max_depth, api, pc, res_search, res_shared, pops,
                   workVars, chainVars, threadVars, runVars, poolVars, aggVars, heapVars, ebfVars, gen_pc, gen_edges>>

generate_random_edges_done ==
    /\ gen_pc = "edges"
    /\ gen_i = gen_edges
    /\ gen_pc' = "heuristic"
    /\ gen_i' = 0
    /\ UNCHANGED <<now, searchVars, chainVars, threadVars, runVars, poolVars, aggVars, heapVars, ebfVars, gen_edges>>

\* one iteration of for node in 0..nodes
generate_random_heuristic ==
    /\ gen_pc = "heuristic"
    /\ gen_i < Cardinality(Nodes)
    /\ \E h \in (IF gen_i = problem.goal THEN {0} ELSE HeuristicDraws) :
           problem' = set_heuristic(problem, gen_i, h)
    /\ gen_i' = gen_i + 1
    /\ UNCHANGED <<now, algo_name, max_depth, api, pc, res_search, res_shared, pops,
                   workVars, chainVars, threadVars, runVars, poolVars, aggVars, heapVars, ebfVars, gen_pc, gen_edges>>

generate_random_return ==
    /\ gen_pc = "heuristic"
    /\ gen_i = Cardinality(Nodes)
    /\ gen_pc' = "done"
    /\ UNCHANGED <<now, searchVars, chainVars, threadVars, runVars, poolVars, aggVars, heapVars, ebfVars, gen_i, gen_edges>>

NextRandom ==
    \/ generate_random_new
    \/ generate_random_edge
    \/ generate_random_edges_done
    \/ generate_random_heuristic
    \/ generate_random_return

SpecRandom == InitRandom /\ [][NextRandom]_vars

\* C15: the heuristic stored by generate_random_with_seed is an underestimate:
\* for every node of every generated graph the heuristic value never exceeds
\* the true minimum path cost from that node to the goal.
C15_RandomHeuristicUnderestimates ==
    gen_pc = "done" => Admissible(problem)

-----------------------------------------------------------------------------
\* SpecPool: BenchmarkRunner::run. The match on the problem name, the
\* benchmark_ function of the family, execute_benchmarks (one closure per
\* task on a pool of config.threads threads, each going through
\* execute_with_timeout), save_results and print_summary. An algorithm is
\* the set of results it can return; it may also never return, or panic.

Ok(v) == [ok |-> TRUE, val |-> v]
Err(e) == [ok |-> FALSE, val |-> e]

\* str.contains(word), a message being the sequence of its words
contains(message, word) == \E i \in DOMAIN message : message[i] = word

get_algorithm_names_lenient(algorithm, for_taquin) ==
    Ok(<<"BFS">>)

get_algorithm_names(algorithm, for_taquin) ==
    CASE algorithm = "all" ->
             Ok(IF for_taquin
                THEN <<"BFS", "DFS", "ID", "A*-Manhattan", "IDA*-Manhattan">>
                ELSE <<"BFS", "DFS", "ID", "A*", "IDA*">>)
      [] algorithm = "bfs" -> Ok(<<"BFS">>)
      [] algorithm = "dfs" -> Ok(<<"DFS">>)
      [] algorithm = "id" -> Ok(<<"ID">>)
      [] algorithm = "astar" ->
             Ok(IF for_taquin THEN <<"A*-Manhattan">> ELSE <<"A*">>)
      [] algorithm = "idastar" ->
             Ok(IF for_taquin THEN <<"IDA*-Manhattan">> ELSE <<"IDA*">>)
      [] OTHER -> Err(<<"Algorithme", "inconnu:", algorithm>>)

\* the arm of the match in run, as the label the arm's problem_name_fn gives
problem_family(name) ==
    CASE name \in {"taquin", "all"} -> Some("Taquin")
      [] name = "shortest-path" -> Some("ShortestPath")
      [] name = "shortest-path-random" -> Some("ShortestPath-Random")
      [] OTHER -> None

\* algorithm_names.iter().flat_map(.. (0..iterations).map(..))
flat_map_tasks(algorithm_names, iterations) ==
    [k \in 1 .. Len(algorithm_names) * iterations |->
        [instance_id |-> (k - 1) % iterations,
         algo_name |-> algorithm_names[((k - 1) \div iterations) + 1]]]

\* problem_size, timestamp and initial_state are left out
BenchmarkResult(algorithm, problem_label, instance_id, status, m, error) ==
    [algorithm |-> algorithm, problem |-> problem_label, instance_id |-> instance_id,
     status |-> status, metrics |-> m, error |-> error]

\* the metrics of a search that went through one node
SearchedMetrics ==
    [Metrics_default EXCEPT !.nodes_visited = 1, !.nodes_generated = 1]

\* what execute_algorithm and execute_algorithm_with_shared can return: a
\* solution of one action, or no solution
AlgorithmResults ==
    {SearchResult(Some(<<0>>), [SearchedMetrics EXCEPT !.solution_length = 1], 0),
     SearchResult(None, SearchedMetrics, 2)}

\* what shared_metrics.get() reads while the worker runs
PartialMetrics == {SearchedMetrics}

\* recv_timeout: Ok(res)
received_result(res) == <<res, None>>

\* recv_timeout: Err(RecvTimeoutError::Timeout)
timed_out_result(partial_metrics, secs) ==
    <<SearchResult(None, partial_metrics, 1),
      Some(<<"Timeout", "apres", ToString(secs), "secondes">>)>>

disconnected_result_as_timeout ==
    <<SearchResult(None, SearchedMetrics, 1), Some(<<"Timeout", "de", "communication">>)>>

\* recv_timeout: Err(_), the sender was dropped
disconnected_result ==
    <<SearchResult(None, Metrics_default, 2), Some(<<"Erreur", "de", "communication">>)>>

final_status_never_timeout(res, error_msg) ==
    IF res.status = 0 THEN <<0, None>>
    ELSE <<2, IF error_msg # None THEN error_msg
              ELSE Some(<<"Pas", "de", "solution", "trouvee">>)>>

\* (final_status, final_error)
final_status(res, error_msg) ==
    IF res.status = 0 THEN <<0, None>>
    ELSE IF error_msg # None /\ contains(error_msg[1], "Timeout") THEN <<1, error_msg>>
    ELSE <<2, IF error_msg # None THEN error_msg
              ELSE Some(<<"Pas", "de", "solution", "trouvee">>)>>

closure_result_successes_only(k, res, error_msg) ==
    IF res.status = 0
    THEN Some(BenchmarkResult(all_tasks[k].algo_name, family[1], all_tasks[k].instance_id,
                              0, res.metrics, None))
    ELSE None

\* what the closure given to filter_map returns for task k
closure_result(k, res, error_msg) ==
    LET final == final_status(res, error_msg) IN
    Some(BenchmarkResult(all_tasks[k].algo_name, family[1], all_tasks[k].instance_id,
                         final[1], res.metrics, final[2]))

\* filter_map(..).collect(): the Some values, in the order of the tasks
RECURSIVE filter_map_collect(_)
filter_map_collect(outs) ==
    IF outs = <<>> THEN <<>>
    ELSE (IF Head(outs) = None THEN <<>> ELSE <<Head(outs)[1]>>)
             \o filter_map_collect(Tail(outs))

\* a task no pool thread has taken yet
QueuedTask ==
    [pc |-> "queued", worker |-> "none", left |-> 0, msg |-> None, out |-> None,
     problem_clone |-> None, sm |-> 0]

\* the pool threads that are inside a closure
busy == Cardinality({k \in DOMAIN task : task[k].pc \in {"recv", "inline"}})

\* the largest config.iterations
MaxIterations == 2
\* the largest config.timeout_secs
MaxTimeoutSecs == 1
\* the largest number of tasks of a run
MaxTasks == 5

AlgorithmArgs == {"all", "bfs", "astar", "dijkstra"}
ProblemArgs == {"all", "shortest-path", "sudoku"}
PoolSizes == {1, 2}

ValidConfig(c) ==
    /\ problem_family(c.problem) # None
    /\ c.algorithm \in {"all", "bfs", "dfs", "id", "astar", "idastar"}

\* the number of tasks a configuration asks for
TaskCount(c) == (IF c.algorithm = "all" THEN 5 ELSE 1) * c.iterations

RunConfigs ==
    {c \in [algorithm : AlgorithmArgs, problem : ProblemArgs,
            iterations : 0 .. MaxIterations, threads : PoolSizes,
            timeout_secs : 0 .. MaxTimeoutSecs] :
        TaskCount(c) <= MaxTasks}

InitPool ==
    /\ now = 0
    /\ Init_search
    /\ Init_chain
    /\ Init_threads
    /\ Init_run
    /\ Init_gen
    /\ Init_agg
    /\ Init_heap
    /\ Init_ebf
    /\ config \in RunConfigs
    /\ run_state = "run"
    /\ family = None
    /\ all_tasks = <<>>
    /\ task = <<>>
    /\ results = <<>>
    /\ output_file = None
    /\ run_error = None

poolRest == <<now, searchVars, chainVars, threadVars, runVars, ebfVars, genVars, aggVars, heapVars>>

\* run: an arm of the match that names a benchmark_ function
run_benchmark ==
    /\ run_state = "run"
    /\ problem_family(config.problem) # None
    /\ family' = problem_family(config.problem)
    /\ run_state' = "benchmark"
    /\ UNCHANGED <<poolRest, config, all_tasks, task, results, output_file, run_error>>

\* run: the arm _
run_unknown_problem ==
    /\ run_state = "run"
    /\ problem_family(config.problem) = None
    /\ run_error' = Some(<<"Probleme", "inconnu:", config.problem>>)
    /\ run_state' = "Err"
    /\ UNCHANGED <<poolRest, config, family, all_tasks, task, results, output_file>>

\* benchmark_taquin, benchmark_shortest_path, benchmark_shortest_path_random:
\* get_algorithm_names(..)? returns the error
benchmark_unknown_algorithm ==
    /\ run_state = "benchmark"
    /\ LET names == get_algorithm_names(config.algorithm, family = Some("Taquin")) IN
           /\ ~names.ok
           /\ run_error' = Some(names.val)
    /\ run_state' = "Err"
    /\ UNCHANGED <<poolRest, config, family, all_tasks, task, results, output_file>>

\* the same functions up to execute_benchmarks: all_tasks, and par_iter
\* hands the tasks to the pool
execute_benchmarks ==
    /\ run_state = "benchmark"
    /\ LET names == get_algorithm_names(config.algorithm, family = Some("Taquin")) IN
           /\ names.ok
           /\ all_tasks' = flat_map_tasks(names.val, config.iterations)
    /\ task' = [k \in DOMAIN all_tasks' |-> QueuedTask]
    /\ run_state' = "par_iter"
    /\ UNCHANGED <<poolRest, config, family, results, output_file, run_error>>

\* a free pool thread enters the closure of task k and execute_with_timeout:
\* with a timeout it spawns the worker and blocks in recv_timeout, without
\* one it calls execute_algorithm itself
closure_start(k) ==
    /\ run_state = "par_iter"
    /\ task[k].pc = "queued"
    /\ busy < config.threads
    /\ task' = [task EXCEPT ![k] =
                   IF config.timeout_secs > 0
                   THEN [@ EXCEPT !.pc = "recv", !.worker = "running",
                                  !.left = config.timeout_secs]
                   ELSE [@ EXCEPT !.pc = "inline"]]
    /\ UNCHANGED <<poolRest, config, run_state, family, all_tasks, results, output_file,
                   run_error>>

\* the closure of task k returns its record
closure_return(k, pair) ==
    /\ task' = [task EXCEPT ![k] =
                   [@ EXCEPT !.pc = "done", !.left = 0, !.msg = None,
                             !.out = closure_result(k, pair[1], pair[2])]]
    /\ UNCHANGED <<poolRest, config, run_state, family, all_tasks, results, output_file,
                   run_error>>

\* the worker's algorithm returns and tx.send(res): the result is in the
\* channel while the receiver lives; once the receiver is gone send returns
\* an error, which the worker ignores, and the worker ends
worker_return(k) ==
    /\ run_state \in {"par_iter", "save", "summary"}
    /\ task[k].worker = "running"
    /\ \E res \in AlgorithmResults :
           task' = [task EXCEPT ![k] =
                       IF task[k].pc = "recv"
                       THEN [@ EXCEPT !.worker = "sent", !.msg = Some(res)]
                       ELSE [@ EXCEPT !.worker = "ended"]]
    /\ UNCHANGED <<poolRest, config, run_state, family, all_tasks, results, output_file,
                   run_error>>

\* the worker ends without sending: tx is dropped
worker_panic(k) ==
    /\ run_state \in {"par_iter", "save", "summary"}
    /\ task[k].worker = "running"
    /\ task' = [task EXCEPT ![k] =
                   [@ EXCEPT !.worker = IF task[k].pc = "recv" THEN "dropped" ELSE "ended"]]
    /\ UNCHANGED <<poolRest, config, run_state, family, all_tasks, results, output_file,
                   run_error>>

\* one second passes for every pool thread blocked in recv_timeout
pool_tick ==
    /\ run_state = "par_iter"
    /\ \E k \in DOMAIN task : task[k].pc = "recv" /\ task[k].left > 0
    /\ task' = [k \in DOMAIN task |->
                   IF task[k].pc = "recv" /\ task[k].left > 0
                   THEN [task[k] EXCEPT !.left = @ - 1]
                   ELSE task[k]]
    /\ UNCHANGED <<poolRest, config, run_state, family, all_tasks, results, output_file,
                   run_error>>

closure_recv_Ok(k) ==
    /\ run_state = "par_iter"
    /\ task[k].pc = "recv"
    /\ task[k].msg # None
    /\ closure_return(k, received_result(task[k].msg[1]))

\* rx.recv() in the place of rx.recv_timeout(timeout_duration)
closure_recv_blocks(k) ==
    /\ FALSE
    /\ UNCHANGED vars

\* the duration elapsed with the channel empty and the sender alive
closure_recv_Timeout(k) ==
    /\ run_state = "par_iter"
    /\ task[k].pc = "recv"
    /\ task[k].left = 0
    /\ task[k].worker = "running"
    /\ \E partial_metrics \in PartialMetrics :
           closure_return(k, timed_out_result(partial_metrics, config.timeout_secs))

closure_recv_Disconnected(k) ==
    /\ run_state = "par_iter"
    /\ task[k].pc = "recv"
    /\ task[k].worker = "dropped"
    /\ closure_return(k, disconnected_result)

\* the else branch of execute_with_timeout: execute_algorithm returns
closure_inline(k) ==
    /\ run_state = "par_iter"
    /\ task[k].pc = "inline"
    /\ \E res \in AlgorithmResults : closure_return(k, received_result(res))

\* collect that does not wait for the closures still running
collect_early ==
    /\ run_state = "par_iter"
    /\ results' = filter_map_collect([k \in DOMAIN task |-> task[k].out])
    /\ run_state' = "save"
    /\ UNCHANGED <<poolRest, config, family, all_tasks, task, output_file, run_error>>

\* every closure has returned: collect
collect ==
    /\ run_state = "par_iter"
    /\ \A k \in DOMAIN task : task[k].pc = "done"
    /\ results' = filter_map_collect([k \in DOMAIN task |-> task[k].out])
    /\ run_state' = "save"
    /\ UNCHANGED <<poolRest, config, family, all_tasks, task, output_file, run_error>>

save_results_Ok ==
    /\ run_state = "save"
    /\ output_file' = Some(results)
    /\ run_state' = "summary"
    /\ UNCHANGED <<poolRest, config, family, all_tasks, task, results, run_error>>

\* File::create fails, or write_all fails on the file it created
save_results_Err ==
    /\ run_state = "save"
    /\ \E created \in BOOLEAN :
           output_file' = IF created THEN Some(<<>>) ELSE output_file
    /\ run_error' = Some(<<"io">>)
    /\ run_state' = "Err"
    /\ UNCHANGED <<poolRest, config, family, all_tasks, task, results>>

print_summary ==
    /\ run_state = "summary"
    /\ run_state' = "Ok"
    /\ UNCHANGED <<poolRest, config, family, all_tasks, task, results, output_file,
                   run_error>>

NextPool ==
    \/ run_benchmark
    \/ run_unknown_problem
    \/ benchmark_unknown_algorithm
    \/ execute_benchmarks
    \/ \E k \in DOMAIN task :
          \/ closure_start(k)
          \/ worker_return(k)
          \/ worker_panic(k)
          \/ closure_recv_Ok(k)
          \/ closure_recv_Timeout(k)
          \/ closure_recv_Disconnected(k)
          \/ closure_inline(k)
    \/ pool_tick
    \/ collect
    \/ save_results_Ok
    \/ save_results_Err
    \/ print_summary

SpecPool == InitPool /\ [][NextPool]_vars

\* the tasks whose closure has been entered: an algorithm was invoked or a
\* worker was spawned for them
Entered == {k \in DOMAIN task : task[k].pc # "queued" \/ task[k].worker # "none"}

\* C16: if the configured algorithm name is not one of all, bfs, dfs, id,
\* astar, idastar, or the problem name is not a recognised one, run returns
\* an error before any task is generated or executed: no algorithm is
\* invoked, no worker thread is spawned and no result file is written.
C16_InvalidNamesAbortBeforeTasks ==
    ~ValidConfig(config) =>
        /\ run_state \in {"run", "benchmark", "Err"}
        /\ all_tasks = <<>>
        /\ Entered = {}
        /\ results = <<>>
        /\ output_file = None
        /\ run_state = "Err" => run_error # None /\ contains(run_error[1], "inconnu:")

\* run has returned the error for an unknown algorithm name, and for an
\* unknown problem name, with iterations that would have made tasks
C16_Witness ==
    /\ run_state = "Err"
    /\ config.iterations > 0
    /\ config.algorithm = "dijkstra"
    /\ config.problem # "sudoku"
    /\ run_error = Some(<<"Algorithme", "inconnu:", "dijkstra">>)

\* the records of results for the pair (algorithm name, instance_id)
RecordsOf(algorithm, instance_id) ==
    {i \in DOMAIN results :
        results[i].algorithm = algorithm /\ results[i].instance_id = instance_id}

\* C18: a run with a valid configuration produces exactly one BenchmarkResult
\* for each (algorithm name, instance_id) pair with instance_id in
\* 0..iterations, that is |algorithms| x iterations records, whatever mix of
\* Success, Timeout, NoSolution and communication-error outcomes the tasks
\* have.
C18_OneRecordPerTask ==
    ValidConfig(config) /\ run_state \in {"save", "summary", "Ok"} =>
        LET names == get_algorithm_names(config.algorithm, config.problem \in {"taquin", "all"}).val
            algorithms == {names[i] : i \in DOMAIN names} IN
        /\ Len(results) = Cardinality(algorithms) * config.iterations
        /\ \A algorithm \in algorithms : \A instance_id \in 0 .. config.iterations - 1 :
               Cardinality(RecordsOf(algorithm, instance_id)) = 1
        /\ \A i \in DOMAIN results :
               /\ results[i].algorithm \in algorithms
               /\ results[i].instance_id \in 0 .. config.iterations - 1

\* the results of a run of five algorithms are collected, with a success, a
\* timeout, a search without solution and a communication failure among them
C18_Witness ==
    /\ run_state = "save"
    /\ Len(results) = 5
    /\ \E i \in DOMAIN results : results[i].status = 0
    /\ \E i \in DOMAIN results : results[i].status = 1
    /\ \E i \in DOMAIN results :
           results[i].error = Some(<<"Pas", "de", "solution", "trouvee">>)
    /\ \E i \in DOMAIN results :
           results[i].error = Some(<<"Erreur", "de", "communication">>)

\* the tasks whose worker ended without sending while the closure was in
\* recv_timeout, and whose closure has returned
Disconnected == {k \in DOMAIN task : task[k].pc = "done" /\ task[k].worker = "dropped"}

\* C19: if the worker ends without sending a result before the timeout
\* expires, the task is recorded with the error message of a communication
\* failure, a status different from Timeout (1), default metrics and no
\* solution, and the run goes on with the remaining tasks instead of
\* returning an error.
C19_CommunicationFailureIsTaskLevel ==
    /\ \A k \in Disconnected :
           /\ task[k].out # None
           /\ task[k].out[1].error = Some(<<"Erreur", "de", "communication">>)
           /\ task[k].out[1].status = 2
           /\ task[k].out[1].metrics = Metrics_default
           /\ disconnected_result[1].solution = None
    /\ Disconnected # {} =>
           /\ run_state \in {"par_iter", "save", "summary", "Ok", "Err"}
           /\ run_state = "Err" => run_error = Some(<<"io">>)
           /\ run_state \in {"save", "summary", "Ok"} => Len(results) = Len(all_tasks)

\* a run returned Ok and wrote its results; a task before the last one had a
\* communication failure and the last task then succeeded
C19_Witness ==
    /\ run_state = "Ok"
    /\ config.threads = 1
    /\ Len(results) = 2
    /\ output_file = Some(results)
    /\ 1 \in Disconnected
    /\ results[1].status = 2
    /\ results[2].status = 0

-----------------------------------------------------------------------------
\* SpecPoolFair: the run under the scheduling the code rests on. Every pool
\* thread and the thread of run keep taking their steps and time passes; a
\* worker is under no obligation: its algorithm may run forever.

PoolThreadStep ==
    \E k \in DOMAIN task :
        \/ closure_start(k)
        \/ closure_recv_Ok(k)
        \/ closure_recv_Timeout(k)
        \/ closure_recv_Disconnected(k)

RunStep ==
    \/ run_benchmark
    \/ run_unknown_problem
    \/ benchmark_unknown_algorithm
    \/ execute_benchmarks
    \/ collect
    \/ save_results_Ok
    \/ save_results_Err
    \/ print_summary

\* the largest number of tasks of a run under SpecPoolFair
MaxFairTasks == 2

InitPoolFair ==
    /\ InitPool
    /\ TaskCount(config) <= MaxFairTasks

SpecPoolFair ==
    /\ InitPoolFair
    /\ [][NextPool]_vars
    /\ WF_vars(PoolThreadStep)
    /\ WF_vars(pool_tick)
    /\ WF_vars(RunStep)

\* every closure has returned its record
AllTasksDone == \A k \in DOMAIN task : task[k].pc = "done" /\ task[k].out # None

\* C17: with a non-zero timeout configured, every task eventually yields a
\* result to the orchestrator even if its algorithm never terminates:
\* execute_with_timeout returns after the worker's message arrives, the
\* worker's channel end is dropped, or the timeout duration elapses, and a
\* timeout in one task neither aborts nor delays the completion of sibling
\* tasks: the run goes on to its end while abandoned workers still run.
C17_EveryTaskYieldsAResult ==
    /\ [](config.timeout_secs > 0 /\ run_state = "par_iter"
            => <>(AllTasksDone /\ run_state \in {"Ok", "Err"}))
    /\ [][\A k \in DOMAIN task :
              task[k].pc = "recv" /\ task'[k].pc = "done" =>
                  \/ task[k].msg # None /\ task'[k].out[1].status = task[k].msg[1].status
                         /\ task'[k].out[1].metrics = task[k].msg[1].metrics
                  \/ task[k].worker = "dropped" /\ task'[k].out[1].status = 2
                  \/ task[k].left = 0 /\ task[k].worker = "running"
                         /\ task'[k].out[1].status = 1]_vars
    /\ [](\A k \in DOMAIN task :
              task[k].pc = "done" /\ task[k].out[1].status = 1 =>
                  run_state # "Err" \/ run_error = Some(<<"io">>))

\* the run returned Ok with two records on a pool of one thread: the first
\* task timed out and its worker still runs, the second one succeeded after it
C17_Witness ==
    /\ run_state = "Ok"
    /\ config.threads = 1
    /\ Len(results) = 2
    /\ results[1].status = 1
    /\ task[1].worker = "running"
    /\ results[2].status = 0

-----------------------------------------------------------------------------
\* SpecAggregate: AggregatedResults::from_results on one group of records.
\* An f64 quotient is the fraction in lowest terms; the metrics drawn have a
\* nodes_generated that is a perfect power, so that powf gives an integer.

RECURSIVE gcd(_, _)
gcd(a, b) == IF b = 0 THEN a ELSE gcd(b, a % b)

\* sum as f64 / n
f64_div(sum, n) == LET g == gcd(sum, n) IN <<sum \div g, n \div g>>

\* 0.0
f64_zero == <<0, 1>>

RECURSIVE pow(_, _)
pow(base, e) == IF e = 0 THEN 1 ELSE base * pow(base, e - 1)

\* (nodes_generated as f64).powf(1.0 / solution_length as f64)
powf_root(base, root) == CHOOSE r \in 0 .. base : pow(r, root) = base

effective_branching_factor_no_guard(m) ==
    powf_root(m.nodes_generated, Max(m.solution_length, 1))

effective_branching_factor(m) ==
    IF m.solution_length = 0 THEN 0
    ELSE powf_root(m.nodes_generated, m.solution_length)

\* iter().sum()
RECURSIVE iter_sum(_)
iter_sum(values) ==
    IF values = <<>> THEN 0 ELSE Head(values) + iter_sum(Tail(values))

\* iter().map(|r| r.metrics.field).sum() / n
avg_field(rs, field) ==
    f64_div(iter_sum([i \in DOMAIN rs |-> rs[i].metrics[field]]), Len(rs))

avg_ebf_of(rs) ==
    f64_div(iter_sum([i \in DOMAIN rs |-> effective_branching_factor(rs[i].metrics)]),
            Len(rs))

AggregatedResults(rs_all, total, successful, rs) ==
    [algorithm |-> rs_all[1].algorithm,
     problem |-> rs_all[1].problem,
     total_instances |-> total,
     successful_instances |-> successful,
     avg_time_ms |-> IF rs = <<>> THEN f64_zero ELSE avg_field(rs, "time_ms"),
     avg_memory_kb |-> IF rs = <<>> THEN f64_zero ELSE avg_field(rs, "memory_kb"),
     avg_nodes_visited |-> IF rs = <<>> THEN f64_zero ELSE avg_field(rs, "nodes_visited"),
     avg_nodes_generated |-> IF rs = <<>> THEN f64_zero
                             ELSE avg_field(rs, "nodes_generated"),
     avg_solution_length |-> IF rs = <<>> THEN f64_zero
                             ELSE avg_field(rs, "solution_length"),
     avg_ebf |-> IF rs = <<>> THEN f64_zero ELSE avg_ebf_of(rs)]

from_results_over_all(rs_all) ==
    AggregatedResults(rs_all, Len(rs_all), Len(rs_all), rs_all)

from_results(rs_all) ==
    LET total == Len(rs_all)
        successful_results == SelectSeq(rs_all, LAMBDA r : r.status = 0)
        successful == Len(successful_results) IN
    IF successful_results = <<>>
    THEN AggregatedResults(rs_all, total, 0, <<>>)
    ELSE AggregatedResults(rs_all, total, successful, successful_results)

\* the largest group
MaxGroup == 3

\* the metrics of the records of a group
GroupMetrics ==
    {Metrics_default,
     [time_ms |-> 1, memory_kb |-> 0, nodes_visited |-> 1, nodes_generated |-> 3,
      max_frontier_size |-> 1, solution_length |-> 1],
     [time_ms |-> 2, memory_kb |-> 1, nodes_visited |-> 3, nodes_generated |-> 4,
      max_frontier_size |-> 2, solution_length |-> 2]}

\* the error of a record of status st, as final_status sets it
GroupError(st) ==
    CASE st = 0 -> None
      [] st = 1 -> Some(<<"Timeout", "apres", "1", "secondes">>)
      [] OTHER -> Some(<<"Pas", "de", "solution", "trouvee">>)

\* the groups print_summary makes have one algorithm and one problem
Groups ==
    UNION {{[i \in 1 .. n |->
                BenchmarkResult("BFS", "Taquin", i - 1, st[i], ms[i], GroupError(st[i]))] :
              st \in [1 .. n -> {0, 1, 2}], ms \in [1 .. n -> GroupMetrics]} :
           n \in 0 .. MaxGroup}

InitAggregate ==
    /\ now = 0
    /\ Init_search
    /\ Init_chain
    /\ Init_threads
    /\ Init_run
    /\ Init_gen
    /\ Init_pool
    /\ Init_heap
    /\ Init_ebf
    /\ group \in Groups
    /\ aggregated = None

aggRest == <<now, searchVars, chainVars, threadVars, runVars, ebfVars, genVars, poolVars, heapVars>>

from_results_call ==
    /\ aggregated = None
    /\ group # <<>>
    /\ aggregated' = Some(from_results(group))
    /\ UNCHANGED <<aggRest, group>>

\* results[0] on an empty slice
from_results_panic ==
    /\ aggregated = None
    /\ group = <<>>
    /\ aggregated' = Some("panic")
    /\ UNCHANGED <<aggRest, group>>

NextAggregate ==
    \/ from_results_call
    \/ from_results_panic

SpecAggregate == InitAggregate /\ [][NextAggregate]_vars

\* the records of status 0 of the group, and the sum of one of their fields
Successes == {i \in DOMAIN group : group[i].status = 0}

RECURSIVE SumOver(_, _)
SumOver(S, f) ==
    IF S = {} THEN 0
    ELSE LET i == CHOOSE j \in S : TRUE IN f[i] + SumOver(S \ {i}, f)

\* the fraction q is total / count
IsQuotient(q, total, count) == q[2] > 0 /\ q[1] * count = total * q[2]

AveragedFields ==
    {"avg_time_ms", "avg_memory_kb", "avg_nodes_visited", "avg_nodes_generated",
     "avg_solution_length", "avg_ebf"}

\* C20: from_results on a non-empty group sets total_instances to the group
\* size and successful_instances to the number of records of status 0; the
\* averaged fields are the sums over the records of status 0 divided by
\* successful_instances, the records of status 1 or 2 contribute nothing, and
\* when no record has status 0 every averaged field and successful_instances
\* are 0.
C20_AggregatesSuccessesOnly ==
    group # <<>> /\ aggregated # None =>
        LET a == aggregated[1]
            n == Cardinality(Successes)
            of(field) == SumOver(Successes, [i \in DOMAIN group |-> group[i].metrics[field]])
            only == SelectSeq(group, LAMBDA r : r.status = 0) IN
        /\ a.total_instances = Len(group)
        /\ a.successful_instances = n
        /\ a.successful_instances <= a.total_instances
        /\ n = 0 => \A field \in AveragedFields : a[field] = f64_zero
        /\ n > 0 =>
               /\ IsQuotient(a.avg_time_ms, of("time_ms"), n)
               /\ IsQuotient(a.avg_memory_kb, of("memory_kb"), n)
               /\ IsQuotient(a.avg_nodes_visited, of("nodes_visited"), n)
               /\ IsQuotient(a.avg_nodes_generated, of("nodes_generated"), n)
               /\ IsQuotient(a.avg_solution_length, of("solution_length"), n)
               /\ IsQuotient(a.avg_ebf,
                             SumOver(Successes,
                                     [i \in DOMAIN group |->
                                         effective_branching_factor(group[i].metrics)]),
                             n)
               /\ \A field \in AveragedFields : a[field] = from_results(only)[field]

\* from_results has returned for a group of a success, a timeout with
\* partial metrics and a second success
C20_Witness ==
    /\ aggregated # None
    /\ Len(group) = 3
    /\ group[1].status = 0 /\ group[1].metrics.nodes_visited = 3
    /\ group[2].status = 1 /\ group[2].metrics.nodes_visited = 1
    /\ group[3].status = 0 /\ group[3].metrics.nodes_visited = 1
    /\ aggregated[1].successful_instances = 2
    /\ aggregated[1].avg_nodes_visited = <<2, 1>>
    /\ aggregated[1].avg_time_ms = <<3, 2>>

-----------------------------------------------------------------------------
\* Further claims under SpecPool

\* the records of the closures, in the order of the tasks
RecordsAtBarrier == [k \in DOMAIN task |-> task[k].out[1]]

\* C21: persistence (save_results) and aggregation (print_summary) start only
\* after every task of the run has delivered its result to the orchestrator,
\* whether or not an abandoned worker still runs, and the results persisted
\* are exactly the results collected at the barrier.
C21_SaveAfterBarrier ==
    /\ run_state \in {"save", "summary", "Ok"} \/ output_file # None =>
           /\ AllTasksDone
           /\ results = RecordsAtBarrier
    /\ run_state \in {"summary", "Ok"} => output_file = Some(RecordsAtBarrier)
    /\ run_state \in {"run", "benchmark", "par_iter"} =>
           results = <<>> /\ output_file = None

\* print_summary is about to run on two persisted records while the worker of
\* the task that timed out is still running
C21_Witness ==
    /\ run_state = "summary"
    /\ Len(results) = 2
    /\ output_file = Some(results)
    /\ \E k \in DOMAIN task :
           task[k].worker = "running" /\ task[k].out[1].status = 1

-----------------------------------------------------------------------------
\* SpecTasks: the run of the tasks of one algorithm on the grid, with what
\* execute_with_timeout gives each worker made explicit: problem.clone() and
\* the SharedMetrics of SharedMetrics::new(), an allocation of its own that
\* the worker writes while it runs and the Timeout arm reads.

\* the most increments a worker makes to its SharedMetrics
MaxProgress == 1

SharedMetrics_new_global(heap) == 1

\* Arc::new(Mutex::new(..)): the handle of a fresh allocation
SharedMetrics_new(heap) == Len(heap) + 1

\* gen(instance_id) of benchmark_shortest_path
TaskProblem == generate_grid(2, 2)

InitTasks ==
    /\ InitPool
    /\ config.algorithm = "bfs"
    /\ config.problem = "shortest-path"
    /\ config.iterations >= 2
    /\ config.timeout_secs > 0

tasksRest == <<now, searchVars, chainVars, threadVars, runVars, ebfVars, genVars, aggVars>>

\* closure_start with a timeout: problem.clone(), SharedMetrics::new(), spawn
task_start(k) ==
    /\ run_state = "par_iter"
    /\ task[k].pc = "queued"
    /\ busy < config.threads
    /\ config.timeout_secs > 0
    /\ task' = [task EXCEPT ![k] =
                   [@ EXCEPT !.pc = "recv", !.worker = "running",
                             !.left = config.timeout_secs,
                             !.problem_clone = Some(TaskProblem),
                             !.sm = SharedMetrics_new(arcs)]]
    /\ arcs' = Append(arcs, Metrics_default)
    /\ UNCHANGED <<tasksRest, config, run_state, family, all_tasks, results, output_file,
                   run_error>>

\* the worker's algorithm counts a node in the SharedMetrics it was given
task_worker_progress(k) ==
    /\ run_state \in {"par_iter", "save", "summary"}
    /\ task[k].worker = "running"
    /\ arcs[task[k].sm].nodes_visited < MaxProgress
    /\ arcs' = [arcs EXCEPT ![task[k].sm] = increment_visited(@, 0)]
    /\ UNCHANGED <<tasksRest, poolVars>>

\* the Timeout arm: partial_metrics = shared_metrics.get()
task_recv_Timeout(k) ==
    /\ run_state = "par_iter"
    /\ task[k].pc = "recv"
    /\ task[k].left = 0
    /\ task[k].worker = "running"
    /\ closure_return(k, timed_out_result(get(arcs[task[k].sm]), config.timeout_secs))

NextTasks ==
    \/ run_benchmark
    \/ execute_benchmarks
    \/ \E k \in DOMAIN task :
          \/ task_start(k)
          \/ task_worker_progress(k)
          \/ worker_return(k)
          \/ worker_panic(k)
          \/ closure_recv_Ok(k)
          \/ task_recv_Timeout(k)
          \/ closure_recv_Disconnected(k)
    \/ pool_tick
    \/ collect
    \/ save_results_Ok
    \/ save_results_Err
    \/ print_summary

SpecTasks == InitTasks /\ [][NextTasks]_vars

\* a step of the worker of task k
WorkerStep(k) == task_worker_progress(k) \/ worker_return(k) \/ worker_panic(k)

\* C22: each task owns its own problem copy and its own SharedMetrics: a step
\* of any worker, abandoned after a timeout or not, never changes the
\* problem, the SharedMetrics or the recorded BenchmarkResult of another
\* task, and a result sent by a worker after its timeout expired is discarded
\* without error and without changing the Timeout record already produced.
C22_TasksAreIsolated ==
    /\ [](\A k \in DOMAIN task : \A j \in DOMAIN task :
              k # j /\ task[k].sm # 0 => task[j].sm # task[k].sm)
    /\ [][\A k \in DOMAIN task :
              WorkerStep(k) =>
                  /\ \A j \in DOMAIN task \ {k} :
                         /\ task'[j] = task[j]
                         /\ task[j].sm # 0 => arcs'[task[j].sm] = arcs[task[j].sm]
                  /\ task'[k].problem_clone = task[k].problem_clone
                  /\ task'[k].out = task[k].out
                  /\ all_tasks' = all_tasks
                  /\ results' = results
                  /\ output_file' = output_file
                  /\ run_error' = run_error
                  /\ run_state' = run_state
                  /\ task[k].pc = "done" =>
                         task'[k].pc = "done" /\ task'[k].msg = None]_vars

\* task 1 has its Timeout record, its worker went on writing its own
\* SharedMetrics and then ended on a send that nobody receives; the worker of
\* task 2 runs on a SharedMetrics that is still untouched
C22_Witness ==
    /\ Len(task) >= 2
    /\ task[1].pc = "done"
    /\ task[1].out[1].status = 1
    /\ task[1].out[1].metrics = Metrics_default
    /\ task[1].worker = "ended"
    /\ arcs[task[1].sm].nodes_visited = 1
    /\ task[2].worker = "running"
    /\ arcs[task[2].sm] = Metrics_default

-----------------------------------------------------------------------------
\* SpecEbf: Metrics::effective_branching_factor on one Metrics value. With a
\* solution_length above 0 the nodes_generated drawn are the perfect powers,
\* on which the root is an integer.

\* the largest root drawn, and the largest solution_length
MaxBase == 5
MaxRoot == 3

EbfInputs ==
    {[Metrics_default EXCEPT !.nodes_generated = g, !.solution_length = 0] :
        g \in 0 .. pow(MaxBase, MaxRoot)}
    \cup {[Metrics_default EXCEPT !.nodes_generated = pow(r, l), !.solution_length = l] :
             r \in 0 .. MaxBase, l \in 1 .. MaxRoot}

InitEbf ==
    /\ now = 0
    /\ Init_search
    /\ Init_chain
    /\ Init_threads
    /\ Init_run
    /\ Init_gen
    /\ Init_pool
    /\ Init_agg
    /\ Init_heap
    /\ ebf_in \in EbfInputs
    /\ ebf_out = None

effective_branching_factor_call ==
    /\ ebf_out = None
    /\ ebf_out' = Some(effective_branching_factor(ebf_in))
    /\ UNCHANGED <<now, searchVars, chainVars, threadVars, runVars, genVars, poolVars,
                   aggVars, heapVars, ebf_in>>

NextEbf == effective_branching_factor_call

SpecEbf == InitEbf /\ [][NextEbf]_vars

\* C23: effective_branching_factor returns 0 whenever solution_length is 0,
\* for every value of nodes_generated, 0 included, and otherwise returns
\* nodes_generated raised to the power 1 / solution_length.
C23_EffectiveBranchingFactor ==
    ebf_out # None =>
        /\ ebf_in.solution_length = 0 => ebf_out[1] = 0
        /\ ebf_in.solution_length > 0 =>
               /\ ebf_out[1] >= 0
               /\ pow(ebf_out[1], ebf_in.solution_length) = ebf_in.nodes_generated

\* it has returned 0 for 8 nodes and no solution, and 2 for 8 nodes and a
\* solution of 3 actions
C23_Witness ==
    /\ ebf_out # None
    /\ ebf_in.nodes_generated = 8
    /\ \/ ebf_in.solution_length = 0 /\ ebf_out[1] = 0
       \/ ebf_in.solution_length = 3 /\ ebf_out[1] = 2

---------------------------------------------------------------------------
(* Further claims under Spec *)

\* IterativeDeepening::search is running
IDSearch == algo_name = "ID" /\ api = "search"

\* the three counters search accumulates over the DFS runs
Counters(m) == <<m.nodes_visited, m.nodes_generated, m.max_frontier_size>>

\* C24: IterativeDeepening::search runs a DFS for the bounds 0, 1, ...,
\* max_depth in this order, each DFS with a fresh explored set, and stops at
\* the first bound whose DFS succeeds.  It returns that DFS's solution
\* unchanged, of at most that bound's length, with nodes_visited and
\* nodes_generated the sums and max_frontier_size the maximum over the runs
\* made.  If no bound succeeds it returns NoSolution after max_depth + 1
\* runs, with the counters accumulated over all of them.
C24_IterativeDeepeningRuns ==
    /\ [](IDSearch /\ pc \in {"dfs_start", "dfs_loop", "id_after"}
             => dfs_max_depth = Some(depth) /\ depth <= max_depth)
    /\ [][IDSearch /\ pc = "id_start"
             => depth' = 0 /\ Counters(total_metrics') = <<0, 0, 0>>]_vars
    /\ [][IDSearch /\ pc = "dfs_start" => explored' = {}]_vars
    /\ [][IDSearch /\ pc \in {"dfs_start", "dfs_loop", "id_loop"}
             => UNCHANGED <<depth, total_metrics>>]_vars
    /\ [][IDSearch /\ pc = "id_after"
             => LET r == result[1] IN
                /\ total_metrics'.nodes_visited
                      = total_metrics.nodes_visited + r.metrics.nodes_visited
                /\ total_metrics'.nodes_generated
                      = total_metrics.nodes_generated + r.metrics.nodes_generated
                /\ total_metrics'.max_frontier_size
                      = Max(total_metrics.max_frontier_size, r.metrics.max_frontier_size)
                /\ IF r.status = 0
                   THEN /\ pc' = "done"
                        /\ result'[1].status = 0
                        /\ result'[1].solution = r.solution
                        /\ r.solution # None
                        /\ Len(r.solution[1]) <= depth
                        /\ Counters(result'[1].metrics) = Counters(total_metrics')
                   ELSE pc' = "id_loop" /\ depth' = depth + 1]_vars
    /\ [][IDSearch /\ pc = "id_loop"
             => IF depth <= max_depth
                THEN pc' = "dfs_start" /\ dfs_max_depth' = Some(depth)
                ELSE /\ depth = max_depth + 1
                     /\ pc' = "done"
                     /\ result'[1].status = 2
                     /\ result'[1].solution = None
                     /\ Counters(result'[1].metrics) = Counters(total_metrics)]_vars

\* search returned the solution of its third DFS, having visited more nodes
\* over the three runs than that DFS did
C24_Witness ==
    /\ IDSearch /\ pc = "done"
    /\ result[1].status = 0
    /\ depth = 2
    /\ Len(result[1].solution[1]) = 2
    /\ result[1].metrics.nodes_visited > metrics.nodes_visited
    /\ metrics.nodes_visited > 0

\* the f values of the nodes an iteration with bound b cuts off below the
\* node of state u and path cost g reached along the states of path, when
\* the iteration reaches no goal within b
RECURSIVE CutOffs(_, _, _, _, _)
CutOffs(p, path, u, g, b) ==
    LET f == g + heuristic(p, u) IN
    IF f > b THEN {f}
    ELSE IF is_goal(p, u) THEN {}
    ELSE UNION {CutOffs(p, path \cup {u}, e[1], g + e[2], b) :
                   e \in {d \in EdgesFrom(p, u) : d[1] \notin path \cup {u}}}

\* C25: IDAStar's first iteration uses the bound h(initial).  After a failed
\* iteration the next bound is the least f = g + h over the nodes that
\* iteration cut off because f exceeded the bound, so it is strictly greater
\* than the bound just used; the search stops with NoSolution when the
\* failed iteration cut off no node or when the bound just used is at
\* least max_bound.  Within an iteration the bound does not change.
C25_IDAStarBounds ==
    /\ [][pc = "ida_start" => bound' = heuristic(problem, initial_state(problem))]_vars
    /\ [][pc = "ida_iter" \/ (pc = "ida_rec" /\ pc' = "ida_rec") => bound' = bound]_vars
    /\ [][pc = "ida_rec" /\ pc' # "ida_rec" /\ ret[1].result = None
             => LET C == CutOffs(problem, {}, initial_state(problem), 0, bound) IN
                IF C = {} \/ bound >= max_bound
                THEN /\ pc' = "done"
                     /\ result'[1].status = 2
                     /\ result'[1].solution = None
                     /\ bound' = bound
                ELSE /\ pc' = "ida_iter"
                     /\ bound' = MinOf(C)
                     /\ bound' > bound]_vars

\* an iteration is about to start with a bound that was raised by at least
\* two over h(initial), below max_bound
C25_Witness ==
    /\ pc = "ida_iter"
    /\ bound >= heuristic(problem, initial_state(problem)) + 2
    /\ bound < max_bound

\* the states of the nodes whose search_recursive call is in its for loop
OnPath == {stack[i].node.state : i \in DOMAIN stack}

\* C26: during an IDAStar iteration explored holds exactly the states of the
\* expanded nodes on the path from the root to the node being processed,
\* each once.  A state is inserted when its node is expanded and removed
\* when that node's call returns, with or without a solution; no successor
\* whose state is on the path is entered; when the top-level call has
\* returned explored is empty.
C26_IDAStarExploredIsPath ==
    /\ [](pc = "ida_rec" => explored = OnPath /\ Cardinality(explored) = Len(stack))
    /\ [](pc = "ida_rec" /\ call # None => call[1].state \notin explored)
    /\ [](pc = "ida_rec" /\ ret # None /\ stack = <<>> => explored = {})
    /\ [][pc = "ida_rec" /\ Len(stack') > Len(stack)
             => /\ stack' = Append(stack, stack'[Len(stack')])
                /\ stack'[Len(stack')].node = call[1]
                /\ explored' = explored \cup {call[1].state}]_vars
    /\ [][pc = "ida_rec" /\ pc' = "ida_rec" /\ Len(stack') < Len(stack)
             => /\ stack' = pop_frame
                /\ ret' # None
                /\ explored' = explored \ {top.node.state}]_vars
    /\ [][pc = "ida_rec" /\ pc' = "ida_rec" /\ Len(stack') = Len(stack)
             => explored' = explored]_vars

\* two nodes are on the path and the next successor of the deeper one is a
\* state of the path
C26_Witness ==
    /\ pc = "ida_rec" /\ call = None /\ ret = None
    /\ Len(stack) = 2
    /\ top.i <= Len(successors(problem, top.node.state))
    /\ successors(problem, top.node.state)[top.i][1] \in explored

---------------------------------------------------------------------------
(* AStar on graphs of four nodes.  The graphs are built by add_edge calls   *)
(* for 0 -> 1, 0 -> 2, 1 -> 2 and 2 -> 3 in this order, each made or not,   *)
(* with a cost of 1..MaxCost; start 0, goal 3, heuristic values 0..MaxCost  *)
(* at the nodes 1 and 2 and 0 elsewhere.  Node 2 is reached by two paths of *)
(* different cost, so a state can be pushed twice and closed in between.    *)

MaxCost == 3

\* the list add_edge(from, to, c) leaves, none for c = 0
EdgeMade(to, c) == IF c = 0 THEN <<>> ELSE <<<<to, c>>>>

DiamondProblems ==
    {[graph |-> (0 :> (EdgeMade(1, a) \o EdgeMade(2, b))) @@ (1 :> EdgeMade(2, c))
                    @@ (2 :> EdgeMade(3, d)) @@ (3 :> <<>>),
      start |-> 0, goal |-> 3,
      heuristic_values |-> (0 :> 0) @@ (1 :> h1) @@ (2 :> h2) @@ (3 :> 0)] :
        a \in 0 .. MaxCost, b \in 0 .. MaxCost, c \in 0 .. MaxCost, d \in 0 .. MaxCost,
        h1 \in 0 .. MaxCost, h2 \in 0 .. MaxCost}

InitAStar ==
    /\ now = 0
    /\ algo_name = "A*"
    /\ problem \in DiamondProblems
    /\ max_depth = MaxDepth
    /\ api = "search"
    /\ pc = "idle"
    /\ res_search = None
    /\ res_shared = None
    /\ pops = <<>>
    /\ Init_work
    /\ Init_chain
    /\ Init_threads
    /\ Init_ext
    /\ Init_run

NextAStar ==
    \/ execute_algorithm
    \/ execute_algorithm_with_shared
    \/ returned
    \/ AStar_start \/ AStar_loop \/ AStar_exhausted

SpecAStar == InitAStar /\ [][NextAStar]_vars

\* the states explored holds a cost for
Closed == {e[1] : e \in explored}

\* C27: in AStar a successor is pushed only if its state has no g-score or
\* its tentative g is strictly smaller than the recorded one, and the
\* g-score is then set to it: after every turn of the loop g_scores[s] is
\* the least of its former value and the path costs of the nodes pushed for
\* s in that turn, each pushed node being strictly cheaper than what was
\* recorded when it was pushed, so g_scores[s] is at most the path cost of
\* every node of s in the frontier or in explored and never increases.  A
\* popped non-goal node whose state is in explored is dropped and nothing
\* else changes; otherwise its state enters explored with its path cost:
\* explored holds one cost per state and keeps it.
C27_AStarGScoresAndClosedList ==
    /\ [](pc = "astar_loop"
            => /\ \A k \in DOMAIN frontier :
                    /\ frontier[k].node.state \in DOMAIN g_scores
                    /\ g_scores[frontier[k].node.state] <= frontier[k].node.path_cost
               /\ \A e \in explored :
                    e[1] \in DOMAIN g_scores /\ g_scores[e[1]] <= e[2]
               /\ \A e1, e2 \in explored : e1[1] = e2[1] => e1 = e2)
    /\ [][pc = "astar_loop" /\ pc' = "astar_loop"
             => \E k \in heap_top(frontier) :
                  LET node == frontier[k].node
                      rest == remove_at(frontier, k)
                      new == Len(rest) + 1 .. Len(frontier')
                      costs(s) == {frontier'[j].node.path_cost :
                                     j \in {i \in new : frontier'[i].node.state = s}} IN
                  IF node.state \in Closed
                  THEN frontier' = rest /\ explored' = explored /\ g_scores' = g_scores
                  ELSE /\ explored' = explored \cup {<<node.state, node.path_cost>>}
                       /\ Len(frontier') >= Len(rest)
                       /\ SubSeq(frontier', 1, Len(rest)) = rest
                       /\ \A j \in new :
                            LET s == frontier'[j].node.state
                                c == frontier'[j].node.path_cost IN
                            /\ s \in DOMAIN g_scores => c < g_scores[s]
                            /\ \A i \in new :
                                 i < j /\ frontier'[i].node.state = s
                                     => c < frontier'[i].node.path_cost
                       /\ DOMAIN g_scores'
                            = DOMAIN g_scores \cup {frontier'[j].node.state : j \in new}
                       /\ \A s \in DOMAIN g_scores' :
                            g_scores'[s]
                              = MinOf(costs(s) \cup (IF s \in DOMAIN g_scores
                                                      THEN {g_scores[s]} ELSE {}))]_vars

\* a state was pushed twice, the second time with a smaller g, and closed
\* with that smaller cost; its dearer node still waits in the frontier
C27_Witness ==
    /\ pc = "astar_loop"
    /\ \E k \in DOMAIN frontier :
          /\ <<frontier[k].node.state, g_scores[frontier[k].node.state]>> \in explored
          /\ frontier[k].node.path_cost > g_scores[frontier[k].node.state]

\* 0 -> 1 of cost 1, 0 -> 2 of cost 3, 1 -> 2 of cost 1, 2 -> 3 of cost 2, with
\* h(1) = 3 and h = 0 elsewhere: no two frontier entries ever have the same
\* f_score
ReopeningExample ==
    [graph |-> (0 :> <<<<1, 1>>, <<2, 3>>>>) @@ (1 :> <<<<2, 1>>>>)
                   @@ (2 :> <<<<3, 2>>>>) @@ (3 :> <<>>),
     start |-> 0, goal |-> 3,
     heuristic_values |-> (0 :> 0) @@ (1 :> 3) @@ (2 :> 0) @@ (3 :> 0)]

\* C28: AStar never reopens a closed state: a turn of its loop keeps every
\* cost explored holds, adds a cost only for a state that had none, and
\* pushes nodes only in a turn that closes a new state.  (That a problem
\* with an admissible, inconsistent heuristic then makes AStar return a
\* dearer path than the cheapest one is what the witness shows.)
C28_AStarNeverReopens ==
    [][pc = "astar_loop" /\ pc' = "astar_loop"
         => /\ explored \subseteq explored'
            /\ \A e \in explored' \ explored : e[1] \notin Closed
            /\ Len(frontier') >= Len(frontier) => explored' # explored]_vars

\* on ReopeningExample, whose heuristic is admissible and not consistent,
\* search returned a path of cost 5 while the cheapest costs 4
C28_Witness ==
    /\ problem = ReopeningExample
    /\ Admissible(problem) /\ ~Consistent(problem)
    /\ res_search # None /\ Succeeded(res_search)
    /\ IsPath(problem, res_search[1].goal_node[1])
    /\ res_search[1].goal_node[1].state = problem.goal
    /\ res_search[1].goal_node[1].path_cost = 5
    /\ MinCost(problem) = 4

---------------------------------------------------------------------------
(* Further claims under Spec: BFS and DFS *)

\* the states of the nodes of a BFS or DFS frontier
StatesIn(fr) == {fr[k].state : k \in DOMAIN fr}

\* C29: BFS enqueues a successor only if its state is neither in explored
\* nor the state of a node in the frontier.  At every moment the frontier
\* nodes hold pairwise different states, none of them in explored; a turn of
\* the loop expands a state that was not in explored and puts it there, and
\* appends only nodes of states that are in neither, so over a search a
\* state is enqueued at most once and expanded at most once.
C29_BFSNoDuplicateStates ==
    /\ [](algo_name = "BFS" /\ pc \in {"bfs_loop", "done"}
            => /\ \A i, j \in DOMAIN frontier :
                    frontier[i].state = frontier[j].state => i = j
               /\ StatesIn(frontier) \cap explored = {})
    /\ [][pc = "bfs_start"
             => frontier' = <<Node_new(initial_state(problem))>> /\ explored' = {}]_vars
    /\ [][pc = "bfs_loop" /\ pc' = "bfs_loop"
             => LET node == Head(frontier)
                    rest == Tail(frontier)
                    new == Len(rest) + 1 .. Len(frontier') IN
                /\ node.state \notin explored
                /\ explored' = explored \cup {node.state}
                /\ Len(frontier') >= Len(rest)
                /\ SubSeq(frontier', 1, Len(rest)) = rest
                /\ \A j \in new :
                     /\ frontier'[j].state \notin explored'
                     /\ frontier'[j].state \notin StatesIn(rest)
                     /\ \A i \in new : i < j => frontier'[i].state # frontier'[j].state
                     /\ frontier'[j].parent = Some(node)]_vars
    /\ [][pc = "bfs_loop" /\ pc' = "done"
             => /\ explored' = explored
                /\ frontier' = IF frontier = <<>> THEN frontier ELSE Tail(frontier)]_vars

\* an explored state has an edge to the state of a frontier node that was
\* enqueued from another state: the successor was not enqueued again
C29_Witness ==
    /\ algo_name = "BFS" /\ pc = "bfs_loop"
    /\ \E k \in DOMAIN frontier : \E u \in explored :
          /\ frontier[k].state \in {e[1] : e \in EdgesFrom(problem, u)}
          /\ frontier[k].parent # None
          /\ frontier[k].parent[1].state # u

\* C30: in DFS with max_depth = Some(L) a popped node deeper than L is
\* counted in nodes_visited and dropped: it is not goal-tested (the search
\* goes on and returns nothing, even when its state is the goal), explored
\* is unchanged and nothing is generated or pushed.  So explored and the
\* frontier only grow in a turn that popped a node of depth at most L, and
\* every solution DFS returns, and every solution Iterative Deepening with
\* max_depth L returns, has at most L actions.
C30_DFSDepthLimit ==
    /\ [][pc = "dfs_loop" /\ algo_name \in {"DFS", "ID"} /\ frontier # <<>>
             => LET node == frontier[Len(frontier)]
                    L == dfs_max_depth[1] IN
                /\ dfs_max_depth # None
                /\ node.depth > L
                     => /\ cur'.nodes_visited = cur.nodes_visited + 1
                        /\ cur'.nodes_generated = cur.nodes_generated
                        /\ explored' = explored
                        /\ frontier' = SubSeq(frontier, 1, Len(frontier) - 1)
                        /\ pc' = "dfs_loop"
                        /\ result' = result
                        /\ goal_node' = goal_node
                /\ (explored' # explored \/ Len(frontier') >= Len(frontier)
                        \/ cur'.nodes_generated # cur.nodes_generated)
                     => node.depth <= L
                /\ pc' # "dfs_loop"
                     => /\ node.depth <= L
                        /\ result'[1].solution = Some(extract_solution(node))
                        /\ Len(extract_solution(node)) = node.depth]_vars
    /\ [](algo_name \in {"DFS", "ID"}
            => \A r \in Returns :
                  Succeeded(r) => Len(r[1].r.solution[1]) <= max_depth)

\* DFS with max_depth 1 returned NoSolution on a graph whose goal is two
\* actions from the start: the goal's node of depth 2 was popped and dropped
C30_Witness ==
    /\ algo_name = "DFS" /\ max_depth = 1
    /\ GoalWithin(problem, 2) /\ ~GoalWithin(problem, 1)
    /\ res_search # None
    /\ res_search[1].r.status = 2
    /\ res_search[1].r.metrics.nodes_visited >= 3

---------------------------------------------------------------------------
(* Further claims under SpecNode *)

\* the number of parent links from a node to its root
RECURSIVE ParentLinks(_)
ParentLinks(node) == IF node.parent = None THEN 0 ELSE 1 + ParentLinks(node.parent[1])

\* the node k parent links above a node
RECURSIVE AncestorAt(_, _)
AncestorAt(node, k) == IF k = 0 THEN node ELSE AncestorAt(node.parent[1], k - 1)

RECURSIVE SumSeq(_)
SumSeq(q) == IF q = <<>> THEN 0 ELSE Head(q) + SumSeq(Tail(q))

\* C31: for a node built from Node::new by child calls, and for each node of
\* its parent chain, path_cost is the sum of the step_cost arguments of the
\* calls that led to it and depth is its number of parent links; the root
\* has path_cost 0, depth 0, no parent and no action; child leaves the node
\* it is called on as it was, as the new node's parent.
C31_NodePathCostAndDepth ==
    /\ [](/\ ParentLinks(built) = Len(step_costs)
          /\ \A k \in 0 .. Len(step_costs) :
                LET n == AncestorAt(built, Len(step_costs) - k) IN
                /\ n.path_cost = SumSeq(SubSeq(step_costs, 1, k))
                /\ n.depth = k
                /\ ParentLinks(n) = k
                /\ k = 0 => n.parent = None /\ n.action = None)
    /\ [][built' # built => built'.parent = Some(built)]_vars

\* a node three calls deep, built with step costs that are not all equal
C31_Witness ==
    /\ built.depth = 3
    /\ step_costs[1] # step_costs[2]
    /\ built.path_cost = step_costs[1] + step_costs[2] + step_costs[3]

---------------------------------------------------------------------------
(* Further claims under SpecRunner *)

\* C32: a result of execute_with_timeout with status Timeout (1) has
\* solution_length = 0 in its metrics, in every interleaving of the worker
\* and the caller.
C32_TimeoutReportsNoSolution ==
    (run_result # None /\ run_result[1].status = 1)
        => run_result[1].metrics.solution_length = 0

---------------------------------------------------------------------------
(* Further claims under Spec: the counters of a run *)

\* C33: while an algorithm runs through search_with_shared_metrics, the
\* nodes_visited, nodes_generated and max_frontier_size an observer reads
\* with get() never decrease from one read to a later one.
C33_SharedCountersMonotone ==
    [][pc # "idle" /\ api = "shared"
         => /\ get(shared').nodes_visited >= get(shared).nodes_visited
            /\ get(shared').nodes_generated >= get(shared).nodes_generated
            /\ get(shared').max_frontier_size >= get(shared).max_frontier_size]_vars

\* C34: in the metrics of every result an algorithm returns, from search
\* and from search_with_shared_metrics, nodes_visited <= nodes_generated.
C34_VisitedAtMostGenerated ==
    \A r \in Returns : r[1].r.metrics.nodes_visited <= r[1].r.metrics.nodes_generated

---------------------------------------------------------------------------
(* DFS and Iterative Deepening on unit-cost graphs of five nodes.  The      *)
(* graphs are built by add_edge calls for 0 -> 2, 0 -> 1, 1 -> 2, 1 -> 3,    *)
(* 2 -> 3, 2 -> 4 and 3 -> 4 in this order, each made or not; start 0,      *)
(* goal 4, the default heuristic.  A state can be reached at two depths.    *)

MaxLimit == 3

\* the list add_edge(from, to, 1) leaves when made
UnitEdge(to, made) == IF made THEN <<<<to, 1>>>> ELSE <<>>

LadderProblems ==
    {[graph |-> (0 :> (UnitEdge(2, b[1]) \o UnitEdge(1, b[2])))
                    @@ (1 :> (UnitEdge(2, b[3]) \o UnitEdge(3, b[4])))
                    @@ (2 :> (UnitEdge(3, b[5]) \o UnitEdge(4, b[6])))
                    @@ (3 :> UnitEdge(4, b[7])) @@ (4 :> <<>>),
      start |-> 0, goal |-> 4,
      heuristic_values |-> [u \in 0 .. 4 |-> 0]] : b \in [1 .. 7 -> BOOLEAN]}

InitDepth ==
    /\ now = 0
    /\ algo_name \in {"DFS", "ID"}
    /\ problem \in LadderProblems
    /\ max_depth \in 0 .. MaxLimit
    /\ api = "search"
    /\ pc = "idle"
    /\ res_search = None
    /\ res_shared = None
    /\ pops = <<>>
    /\ Init_work
    /\ Init_chain
    /\ Init_threads
    /\ Init_ext
    /\ Init_run

\* search is called once
NextDepth ==
    \/ execute_algorithm
    \/ returned
    \/ DFS_start \/ DFS_loop
    \/ ID_start \/ ID_loop \/ ID_after

SpecDepth == InitDepth /\ [][NextDepth]_vars

\* C35: when a goal is reachable by a path of at most max_depth actions,
\* DFS with that max_depth returns Success, and Iterative Deepening returns
\* Success with a solution of the least number of actions of any goal path.
C35_DeepeningCompleteAndStepOptimal ==
    (res_search # None /\ GoalWithin(problem, max_depth))
        => /\ Succeeded(res_search)
           /\ algo_name = "ID"
                => Len(res_search[1].r.solution[1]) = MinSteps(problem)

\* C36: in a DFS every state is expanded at most once: a popped node that
\* is expanded (not cut off by the depth limit, not a goal) has a state that
\* is not yet in explored.
C36_DFSExpandsStateOnce ==
    [][pc = "dfs_loop" /\ frontier # <<>>
         => LET node == frontier[Len(frontier)] IN
            (/\ ~(dfs_max_depth # None /\ node.depth > dfs_max_depth[1])
             /\ ~is_goal(problem, node.state))
                => node.state \notin explored]_vars

---------------------------------------------------------------------------
(* The five search methods on graphs with cycles and edges of cost 0.  The  *)
(* graphs have three nodes, start 0 and goal 2; node 0 has at most two and  *)
(* node 1 at most one outgoing edge, to any node (its own source included), *)
(* of cost 0 or 1; the heuristic values of the nodes 0 and 1 are 0 or 1 for *)
(* AStar and IDAStar.  The thread that called search keeps running.         *)

LoopCosts == 0 .. 1

\* the successor lists of at most n edges
LoopLists(n) == UNION {[1 .. k -> Nodes \X LoopCosts] : k \in 0 .. n}

LoopProblems ==
    {[graph |-> (0 :> l0) @@ (1 :> l1) @@ (2 :> <<>>), start |-> 0, goal |-> 2,
      heuristic_values |-> (0 :> h0) @@ (1 :> h1) @@ (2 :> 0)] :
        l0 \in LoopLists(2), l1 \in LoopLists(1), h0 \in LoopCosts, h1 \in LoopCosts}

InitTerminates ==
    /\ now = 0
    /\ algo_name \in Algorithms
    /\ problem \in LoopProblems
    /\ max_depth \in 0 .. MaxDepth
    /\ algo_name \in {"BFS", "DFS", "ID"}
          => \A u \in DOMAIN problem.graph : problem.heuristic_values[u] = 0
    /\ algo_name \in {"BFS", "A*"} => max_depth = MaxDepth
    /\ api = "search"
    /\ pc = "idle"
    /\ res_search = None
    /\ res_shared = None
    /\ pops = <<>>
    /\ Init_work
    /\ Init_chain
    /\ Init_threads
    /\ Init_ext
    /\ Init_run

\* search is called once and runs to its return
NextSearch ==
    \/ execute_algorithm
    \/ returned
    \/ BFS_start \/ BFS_loop
    \/ DFS_start \/ DFS_loop
    \/ ID_start \/ ID_loop \/ ID_after
    \/ AStar_start \/ AStar_loop \/ AStar_exhausted
    \/ IDAStar_start \/ IDAStar_iter \/ IDAStar_after
    \/ search_recursive_enter \/ search_recursive_loop \/ search_recursive_return

SpecTerminates == InitTerminates /\ [][NextSearch]_vars /\ WF_vars(NextSearch)

\* C37: on a finite problem (cycles and edges of cost 0 allowed) each of
\* BFS, DFS, IterativeDeepening, AStar and IDAStar search terminates and
\* returns a result.
C37_SearchTerminates == <>(res_search # None)

\* a search returned NoSolution on a graph whose nodes 0 and 1 lie on a
\* cycle of cost 0 and have an edge to themselves
C37_Witness ==
    /\ res_search # None
    /\ res_search[1].r.status = 2
    /\ <<1, 0>> \in EdgesFrom(problem, 0)
    /\ <<0, 0>> \in EdgesFrom(problem, 0)
    /\ <<0, 0>> \in EdgesFrom(problem, 1)

\* ---------------------------------------------------------------------
\* Further claims under SpecPool: the fields of a record

\* the closure of task k is blocked in recv_timeout, the duration has elapsed,
\* the channel is empty and the sender is alive
ReceiveExpired(k) ==
    /\ task[k].pc = "recv"
    /\ task[k].left = 0
    /\ task[k].msg = None
    /\ task[k].worker = "running"

\* the records the closures have returned and the records collected
RecordsMade ==
    {task[k].out[1] : k \in {j \in DOMAIN task : task[j].out # None}}
        \cup {results[i] : i \in DOMAIN results}

\* C38: in every BenchmarkResult produced by the runner, status is 0, 1 or 2;
\* the error field is absent if and only if status is 0; and the closure of a
\* task returns a record of status 1 if and only if its timed receive
\* expired before a message arrived.
C38_RecordStatusAndError ==
    /\ [](\A r \in RecordsMade :
              /\ r.status \in {0, 1, 2}
              /\ (r.error = None) <=> (r.status = 0))
    /\ [][run_state = "par_iter" =>
              \A k \in DOMAIN task :
                  (task[k].pc \in {"recv", "inline"} /\ task'[k].pc = "done") =>
                      /\ task'[k].out # None
                      /\ (task'[k].out[1].status = 1) <=> ReceiveExpired(k)]_vars

\* a run collected a record of a task whose receive expired, with status 1
\* and an error, next to a record of status 2 with an error and a record of
\* status 0 without one
C38_Witness ==
    /\ run_state = "Ok"
    /\ \E i, j, l \in DOMAIN results :
           /\ results[i].status = 1 /\ results[i].error # None
           /\ results[j].status = 2 /\ results[j].error # None
           /\ results[l].status = 0 /\ results[l].error = None

\* the labels of the three problem families of run
ProblemLabels == {"Taquin", "ShortestPath", "ShortestPath-Random"}

\* C39: with problem name "all", run executes tasks for every problem family
\* (Taquin, grid shortest-path and random shortest-path), so the results
\* collected by a run of at least one iteration contain records for each of
\* the three problem labels.
C39_AllRunsEveryFamily ==
    (config.problem = "all" /\ config.iterations > 0 /\ run_state = "Ok") =>
        \A label \in ProblemLabels : \E i \in DOMAIN results : results[i].problem = label

\* ---------------------------------------------------------------------
\* SpecRect: BFS and AStar on generate_grid(width, height), every width and
\* height from 1 to MaxGrid

InitRect ==
    /\ now = 0
    /\ algo_name \in {"BFS", "A*"}
    /\ \E width, height \in 1 .. MaxGrid : problem = generate_grid(width, height)
    /\ max_depth = MaxDepth
    /\ api = "shared"
    /\ pc = entry(algo_name)
    /\ res_search = None
    /\ res_shared = None
    /\ pops = <<>>
    /\ Init_work
    /\ Init_chain
    /\ Init_threads
    /\ Init_ext
    /\ Init_run

SpecRect == InitRect /\ [][NextGrid]_vars

\* a width the grid of p can have been generated with
WidthOf(p) ==
    CHOOSE width \in 1 .. MaxGrid : \E height \in 1 .. MaxGrid : p = generate_grid(width, height)

\* the Manhattan distance between cells a and b of a grid of that width
Manhattan(width, a, b) ==
    LET ra == a \div width
        rb == b \div width
        ca == a % width
        cb == b % width IN
    (IF ra <= rb THEN rb - ra ELSE ra - rb) + (IF ca <= cb THEN cb - ca ELSE ca - cb)

\* C40: the heuristic stored by generate_grid(w, h) is the Manhattan distance
\* to the goal cell and is admissible and consistent: its value at the goal
\* is 0, and for every edge (u, v) of the grid h(u) <= 1 + h(v). The problem
\* a search is given is admissible, no step of a search changes it, and in
\* every state its heuristic is the Manhattan distance and is consistent.
C40_GridHeuristicManhattan ==
    /\ Admissible(problem)
    /\ [][problem' = problem]_vars
    /\ [](/\ \A u \in NodesOf(problem) :
                 heuristic(problem, u) = Manhattan(WidthOf(problem), u, problem.goal)
          /\ heuristic(problem, problem.goal) = 0
          /\ \A u \in NodesOf(problem) : \A e \in EdgesFrom(problem, u) :
                 e[2] = 1 /\ heuristic(problem, u) <= 1 + heuristic(problem, e[1])
          /\ Consistent(problem))

\* AStar returned a solution on a grid of two rows and three columns, or of
\* three rows and two columns, whose start cell has the heuristic value 3
C40_Witness ==
    /\ algo_name = "A*"
    /\ res_shared # None
    /\ res_shared[1].r.status = 0
    /\ Cardinality(NodesOf(problem)) = 6
    /\ heuristic(problem, problem.start) = 3

=============================================================================
